---- MODULE Spec2Model ----
(***************************************************************************)
(* weave-compute: the request-handling surface of the compute daemon.      *)
(*                                                                         *)
(*   - the wire codec (src/compute/src/protocol.c),                        *)
(*   - the generation pipeline (src/compute/src/generate.c),               *)
(*   - the Unix-socket endpoint and accept loop (src/compute/src/socket.c),*)
(*   - main(), handle_connection(), the stdin monitor thread and the       *)
(*     signal handler (src/compute/src/main.c).                            *)
(*                                                                         *)
(* Specifications:                                                         *)
(*   Spec        the daemon process (server mode, worker mode) and the     *)
(*               unit-test harness of the shutdown flag                    *)
(*   FairSpec    Spec with weak fairness of the main and monitor threads   *)
(*   SpecAuth    socket_auth_connection on every input of a bounded set    *)
(*   SpecCreate  socket_create on every filesystem state of a bounded set  *)
(*   SpecDecode  decode_generate_request on every frame of a bounded set   *)
(*   SpecEncode  the two encoders on every response of a bounded set       *)
(*   SpecTimeouts  socket_set_timeouts on every argument of a bounded set  *)
(***************************************************************************)
EXTENDS Integers, Sequences, FiniteSets, TLC

VARIABLES
    mode,                  \* "server" | "worker" | "test": which main() runs
    pc,                    \* position of the main thread
    blocked,               \* main thread is inside a blocking system call
    intr,                  \* a signal handler ran while that call was blocked
    g_shutdown_requested,  \* socket.c:57
    g_socket_fd,           \* main.c:61
    g_socket_owned,        \* main.c:68
    g_socket_path,         \* socket.c:50 ("" when no path is recorded)
    generation_performed,  \* generate.c:151
    exit_code,             \* main.c:537, what main() returns
    monitor,               \* position of the stdin monitor thread
    stdin,                 \* what a read of standard input finds
    fs,                    \* the filesystem entries socket.c touches
    pending,               \* connections waiting in the listen backlog
    conn,                  \* the connection being served
    rx,                    \* what the connection's receive buffer holds
    signals,               \* signals delivered so far
    rtotal,                \* read_full: progress of the current call
    wtotal,                \* write_full: progress of the current call
    frame,                 \* the request frame read by handle_connection
    req,                   \* decoded request
    resp,                  \* response structure / error being sent
    result,                \* what handle_connection returned ("none" while it runs)
    gh,                    \* history of the current handler invocation
    hist,                  \* history of the process
    fnIn,                  \* input of the function under test
    fnOut                  \* its result

vars == << mode, pc, blocked, intr, g_shutdown_requested, g_socket_fd,
           g_socket_owned, g_socket_path, generation_performed, exit_code,
           monitor, stdin, fs, pending, conn, rx, signals, rtotal,
           wtotal, frame, req, resp, result, gh, hist, fnIn, fnOut >>

-----------------------------------------------------------------------------
(* Bounds of the model.                                                    *)

MaxPending == 1     \* connections waiting in the listen backlog at once
MaxSignals == 1     \* SIGTERM / SIGINT deliveries
MaxCalls == 4       \* calls the flag's unit test makes
MaxCleanups == 3    \* socket_cleanup calls one process makes
MaxDimension == 4096  \* widths and heights handed to the decoder: 0..MaxDimension

-----------------------------------------------------------------------------
(* Protocol constants (src/compute-daemon/include/weave/protocol.h).       *)

PROTOCOL_MAGIC == 1464161861             \* 0x57455645
PROTOCOL_VERSION_1 == 1
MIN_SUPPORTED_VERSION == PROTOCOL_VERSION_1
MAX_SUPPORTED_VERSION == PROTOCOL_VERSION_1
MAX_MESSAGE_SIZE == 10 * 1024 * 1024
MAX_REQUEST_SIZE == 10 * 1024 * 1024     \* main.c:44
MODEL_ID_SD35 == 0
SD35_MIN_DIMENSION == 64
SD35_MAX_DIMENSION == 2048
SD35_DIMENSION_ALIGNMENT == 64
SD35_MIN_STEPS == 1
SD35_MAX_STEPS == 100
SD35_MIN_PROMPT_LENGTH == 1
SD35_MAX_PROMPT_LENGTH == 256
MSG_GENERATE_REQUEST == 1
MSG_GENERATE_RESPONSE == 2
MSG_ERROR == 255
STATUS_OK == 200
STATUS_BAD_REQUEST == 400
STATUS_INTERNAL_SERVER_ERROR == 500
HEADER_SIZE == 16                        \* the 16 of main.c:399
ERROR_BUF_SIZE == 4096                   \* response_buf of main.c:322

\* error_code_t, protocol.h:124-137
ErrorCodes == { "ERR_NONE", "ERR_INVALID_MAGIC", "ERR_UNSUPPORTED_VERSION",
                "ERR_INVALID_MODEL_ID", "ERR_INVALID_PROMPT",
                "ERR_INVALID_DIMENSIONS", "ERR_INVALID_STEPS", "ERR_INVALID_CFG",
                "ERR_OUT_OF_MEMORY", "ERR_GPU_ERROR", "ERR_TIMEOUT",
                "ERR_INTERNAL" }

-----------------------------------------------------------------------------
(* IEEE-754 single precision, as read_f32_be reinterprets the four bytes:  *)
(* a value is its sign bit, biased exponent and mantissa.                  *)

F32(s, e, m) == [sign |-> s, exp |-> e, mant |-> m]
\* variant: an isnan that recognises no bit pattern
isnan_never(f) == FALSE
isnan(f) == f.exp = 255 /\ f.mant # 0
isinf(f) == f.exp = 255 /\ f.mant = 0
IsZeroF(f) == f.exp = 0 /\ f.mant = 0
\* The comparison operators are false when an operand is unordered
\* (exponent 255, mantissa not 0), whatever isnan() says.
\* f < SD35_MIN_CFG (0.0f): false for NaN and for both zeros
LtMinCfg(f) == ~(f.exp = 255 /\ f.mant # 0) /\ f.sign = 1 /\ ~IsZeroF(f)
\* f > SD35_MAX_CFG (20.0f = 0x41A00000: exponent 131, mantissa 0x200000)
GtMaxCfg(f) == ~(f.exp = 255 /\ f.mant # 0) /\ f.sign = 0
               /\ (f.exp > 131 \/ (f.exp = 131 /\ f.mant > 2097152))

-----------------------------------------------------------------------------
(* Wire codec: protocol.c.  A frame is the record of the fields the peer   *)
(* put on the wire; len is the number of bytes handed to the decoder.      *)

\* variant: the version is tested before the magic
decode_protocol_header_version_first(data) ==
    IF data.len < 16 THEN "ERR_INTERNAL"
    ELSE IF data.version < MIN_SUPPORTED_VERSION
            \/ data.version > MAX_SUPPORTED_VERSION THEN "ERR_UNSUPPORTED_VERSION"
    ELSE IF data.magic # PROTOCOL_MAGIC THEN "ERR_INVALID_MAGIC"
    ELSE IF data.msg_type # MSG_GENERATE_REQUEST THEN "ERR_INTERNAL"
    ELSE IF data.payload_len > MAX_MESSAGE_SIZE - 16 THEN "ERR_INTERNAL"
    ELSE "ERR_NONE"

decode_protocol_header(data) ==
    IF data.len < 16 THEN "ERR_INTERNAL"
    ELSE IF data.magic # PROTOCOL_MAGIC THEN "ERR_INVALID_MAGIC"
    ELSE IF data.version < MIN_SUPPORTED_VERSION
            \/ data.version > MAX_SUPPORTED_VERSION THEN "ERR_UNSUPPORTED_VERSION"
    ELSE IF data.msg_type # MSG_GENERATE_REQUEST THEN "ERR_INTERNAL"
    ELSE IF data.payload_len > MAX_MESSAGE_SIZE - 16 THEN "ERR_INTERNAL"
    ELSE "ERR_NONE"

\* the request structure decode_generate_request fills in (protocol.c:180-232)
RequestOf(data) ==
    [ request_id |-> data.request_id, model_id |-> data.model_id,
      width |-> data.width, height |-> data.height, steps |-> data.steps,
      cfg_scale |-> data.cfg_scale, seed |-> data.seed,
      clip_l_offset |-> data.clip_l_offset, clip_l_length |-> data.clip_l_length,
      clip_g_offset |-> data.clip_g_offset, clip_g_length |-> data.clip_g_length,
      t5_offset |-> data.t5_offset, t5_length |-> data.t5_length,
      prompt_data_len |-> data.payload_len - 12 - 48 ]

\* variant: no alignment test
BadDimension_without_alignment(d) ==
    d < SD35_MIN_DIMENSION \/ d > SD35_MAX_DIMENSION

BadDimension(d) ==
    d < SD35_MIN_DIMENSION \/ d > SD35_MAX_DIMENSION
    \/ d % SD35_DIMENSION_ALIGNMENT # 0

\* The offset and length fields are uint32_t.  Such a field is held as its
\* 32-bit word read as two's complement, so the values from 2^31 up are the
\* negative integers (0xFFFFFFFF is -1); ULt and UGt are the C comparisons
\* of two such words.
ULt(a, b) == IF (a < 0) = (b < 0) THEN a < b ELSE b < 0
\* variant: the two words compared as signed integers
UGt_signed(a, b) == a > b
UGt(a, b) == ULt(b, a)

BadPromptLength(n) ==
    ULt(n, SD35_MIN_PROMPT_LENGTH) \/ UGt(n, SD35_MAX_PROMPT_LENGTH)

\* variant: the payload is not tested to lie inside the input
decode_generate_request_without_length_check(data) ==
    LET r == RequestOf(data) IN
    IF data.len < 16 THEN "ERR_INTERNAL"
    ELSE IF decode_protocol_header(data) # "ERR_NONE"
        THEN decode_protocol_header(data)
    ELSE IF data.payload_len < 12 + 48 THEN "ERR_INTERNAL"
    ELSE IF r.model_id # MODEL_ID_SD35 THEN "ERR_INVALID_MODEL_ID"
    ELSE IF BadDimension(r.width) THEN "ERR_INVALID_DIMENSIONS"
    ELSE IF BadDimension(r.height) THEN "ERR_INVALID_DIMENSIONS"
    ELSE IF r.steps < SD35_MIN_STEPS \/ r.steps > SD35_MAX_STEPS
        THEN "ERR_INVALID_STEPS"
    ELSE IF LtMinCfg(r.cfg_scale) \/ GtMaxCfg(r.cfg_scale)
            \/ isnan(r.cfg_scale) \/ isinf(r.cfg_scale) THEN "ERR_INVALID_CFG"
    ELSE IF BadPromptLength(r.clip_l_length) THEN "ERR_INVALID_PROMPT"
    ELSE IF BadPromptLength(r.clip_g_length) THEN "ERR_INVALID_PROMPT"
    ELSE IF BadPromptLength(r.t5_length) THEN "ERR_INVALID_PROMPT"
    ELSE IF UGt(r.clip_l_offset, r.prompt_data_len) THEN "ERR_INVALID_PROMPT"
    ELSE IF UGt(r.clip_l_length, r.prompt_data_len - r.clip_l_offset)
        THEN "ERR_INVALID_PROMPT"
    ELSE IF UGt(r.clip_g_offset, r.prompt_data_len) THEN "ERR_INVALID_PROMPT"
    ELSE IF UGt(r.clip_g_length, r.prompt_data_len - r.clip_g_offset)
        THEN "ERR_INVALID_PROMPT"
    ELSE IF UGt(r.t5_offset, r.prompt_data_len) THEN "ERR_INVALID_PROMPT"
    ELSE IF UGt(r.t5_length, r.prompt_data_len - r.t5_offset)
        THEN "ERR_INVALID_PROMPT"
    ELSE "ERR_NONE"

decode_generate_request(data) ==
    LET r == RequestOf(data) IN
    IF data.len < 16 THEN "ERR_INTERNAL"
    ELSE IF decode_protocol_header(data) # "ERR_NONE"
        THEN decode_protocol_header(data)
    ELSE IF data.len < 16 + data.payload_len THEN "ERR_INTERNAL"
    ELSE IF data.payload_len < 12 + 48 THEN "ERR_INTERNAL"
    ELSE IF r.model_id # MODEL_ID_SD35 THEN "ERR_INVALID_MODEL_ID"
    ELSE IF BadDimension(r.width) THEN "ERR_INVALID_DIMENSIONS"
    ELSE IF BadDimension(r.height) THEN "ERR_INVALID_DIMENSIONS"
    ELSE IF r.steps < SD35_MIN_STEPS \/ r.steps > SD35_MAX_STEPS
        THEN "ERR_INVALID_STEPS"
    ELSE IF LtMinCfg(r.cfg_scale) \/ GtMaxCfg(r.cfg_scale)
            \/ isnan(r.cfg_scale) \/ isinf(r.cfg_scale) THEN "ERR_INVALID_CFG"
    ELSE IF BadPromptLength(r.clip_l_length) THEN "ERR_INVALID_PROMPT"
    ELSE IF BadPromptLength(r.clip_g_length) THEN "ERR_INVALID_PROMPT"
    ELSE IF BadPromptLength(r.t5_length) THEN "ERR_INVALID_PROMPT"
    ELSE IF UGt(r.clip_l_offset, r.prompt_data_len) THEN "ERR_INVALID_PROMPT"
    ELSE IF UGt(r.clip_l_length, r.prompt_data_len - r.clip_l_offset)
        THEN "ERR_INVALID_PROMPT"
    ELSE IF UGt(r.clip_g_offset, r.prompt_data_len) THEN "ERR_INVALID_PROMPT"
    ELSE IF UGt(r.clip_g_length, r.prompt_data_len - r.clip_g_offset)
        THEN "ERR_INVALID_PROMPT"
    ELSE IF UGt(r.t5_offset, r.prompt_data_len) THEN "ERR_INVALID_PROMPT"
    ELSE IF UGt(r.t5_length, r.prompt_data_len - r.t5_offset)
        THEN "ERR_INVALID_PROMPT"
    ELSE "ERR_NONE"

\* How many leading bytes of the input decode_generate_request reads: the
\* header (protocol.c:98-102), request_id and model_id (180-184), the
\* parameter block (196-226).  The prompt bytes are not read, only pointed to.
decode_read_extent(data) ==
    IF data.len < 16 THEN 0
    ELSE IF decode_protocol_header(data) # "ERR_NONE" THEN 16
    ELSE IF data.len < 16 + data.payload_len THEN 16
    ELSE IF data.payload_len < 12 + 48 THEN 16
    ELSE IF data.model_id # MODEL_ID_SD35 THEN 16 + 12
    ELSE 16 + 12 + 48

\* The big-endian writers and readers (protocol.c:21-88).  A buffer is a
\* sequence of bytes; at is the offset of the field's first byte.  The values
\* of this model are below 2^31, so the upper four bytes of a 64-bit field
\* are zero when written and are read as a separate word.
write_u16_be(value) == << (value \div 256) % 256, value % 256 >>

\* variant: the least significant byte first
write_u32_le(value) ==
    << value % 256, (value \div 256) % 256,
       (value \div 65536) % 256, (value \div 16777216) % 256 >>

write_u32_be(value) ==
    << (value \div 16777216) % 256, (value \div 65536) % 256,
       (value \div 256) % 256, value % 256 >>

write_u64_be(value) == << 0, 0, 0, 0 >> \o write_u32_be(value)

read_u16_be(buf, at) == buf[at + 1] * 256 + buf[at + 2]

read_u32_be(buf, at) ==
    ((buf[at + 1] * 256 + buf[at + 2]) * 256 + buf[at + 3]) * 256 + buf[at + 4]

read_u64_be(buf, at) ==
    [hi |-> read_u32_be(buf, at), lo |-> read_u32_be(buf, at + 4)]

\* error_code_t, protocol.h:124-137
error_code_t(code) ==
    CASE code = "ERR_NONE" -> 0
      [] code = "ERR_INVALID_MAGIC" -> 1
      [] code = "ERR_UNSUPPORTED_VERSION" -> 2
      [] code = "ERR_INVALID_MODEL_ID" -> 3
      [] code = "ERR_INVALID_PROMPT" -> 4
      [] code = "ERR_INVALID_DIMENSIONS" -> 5
      [] code = "ERR_INVALID_STEPS" -> 6
      [] code = "ERR_INVALID_CFG" -> 7
      [] code = "ERR_OUT_OF_MEMORY" -> 8
      [] code = "ERR_GPU_ERROR" -> 9
      [] code = "ERR_TIMEOUT" -> 10
      [] code = "ERR_INTERNAL" -> 99

\* What an encoder leaves in the output buffer: the bytes of the fixed
\* fields, then tail_len bytes copied from the block named tail (the pixels
\* or the message text, which are not modelled byte by byte).
NoWire == [head |-> << >>, tail_len |-> 0, tail |-> "none"]

\* variant: the buffer size is tested before the data length
encode_generate_response_buffer_first(r, buf_size) ==
    LET expected_data_len == r.image_width * r.image_height * r.channels
        payload_len == 16 + 16 + r.image_data_len
        total_len == 16 + payload_len
        fail(e) == [err |-> e, len |-> 0, wire |-> NoWire]
    IN
    IF ~r.has_data THEN fail("ERR_INTERNAL")
    ELSE IF BadDimension(r.image_width) THEN fail("ERR_INVALID_DIMENSIONS")
    ELSE IF BadDimension(r.image_height) THEN fail("ERR_INVALID_DIMENSIONS")
    ELSE IF r.channels # 3 /\ r.channels # 4 THEN fail("ERR_INVALID_DIMENSIONS")
    ELSE IF total_len > buf_size THEN fail("ERR_INTERNAL")
    ELSE IF r.image_data_len # expected_data_len
        THEN fail("ERR_INVALID_DIMENSIONS")
    ELSE IF r.image_data_len > MAX_MESSAGE_SIZE - 16 - 16
        THEN fail("ERR_INTERNAL")
    ELSE [err |-> "ERR_NONE", len |-> total_len,
          wire |-> [head |-> write_u32_be(PROTOCOL_MAGIC)
                             \o write_u16_be(PROTOCOL_VERSION_1)
                             \o write_u16_be(MSG_GENERATE_RESPONSE)
                             \o write_u32_be(payload_len)
                             \o write_u32_be(0)
                             \o write_u64_be(r.request_id)
                             \o write_u32_be(r.status)
                             \o write_u32_be(r.generation_time_ms)
                             \o write_u32_be(r.image_width)
                             \o write_u32_be(r.image_height)
                             \o write_u32_be(r.channels)
                             \o write_u32_be(r.image_data_len),
                    tail_len |-> r.image_data_len,
                    tail |-> r.image_data]]

\* variant: no test of the data length against MAX_MESSAGE_SIZE
encode_generate_response_without_size_cap(r, buf_size) ==
    LET expected_data_len == r.image_width * r.image_height * r.channels
        payload_len == 16 + 16 + r.image_data_len
        total_len == 16 + payload_len
        fail(e) == [err |-> e, len |-> 0, wire |-> NoWire]
    IN
    IF ~r.has_data THEN fail("ERR_INTERNAL")
    ELSE IF BadDimension(r.image_width) THEN fail("ERR_INVALID_DIMENSIONS")
    ELSE IF BadDimension(r.image_height) THEN fail("ERR_INVALID_DIMENSIONS")
    ELSE IF r.channels # 3 /\ r.channels # 4 THEN fail("ERR_INVALID_DIMENSIONS")
    ELSE IF r.image_data_len # expected_data_len
        THEN fail("ERR_INVALID_DIMENSIONS")
    ELSE IF total_len > buf_size THEN fail("ERR_INTERNAL")
    ELSE [err |-> "ERR_NONE", len |-> total_len,
          wire |-> [head |-> write_u32_be(PROTOCOL_MAGIC)
                             \o write_u16_be(PROTOCOL_VERSION_1)
                             \o write_u16_be(MSG_GENERATE_RESPONSE)
                             \o write_u32_be(payload_len)
                             \o write_u32_be(0)
                             \o write_u64_be(r.request_id)
                             \o write_u32_be(r.status)
                             \o write_u32_be(r.generation_time_ms)
                             \o write_u32_be(r.image_width)
                             \o write_u32_be(r.image_height)
                             \o write_u32_be(r.channels)
                             \o write_u32_be(r.image_data_len),
                    tail_len |-> r.image_data_len,
                    tail |-> r.image_data]]

\* encode_generate_response: the error code, the number of bytes written
\* (*out_len) and the buffer's content.
\* The two UINT32_MAX guards (protocol.c:350,355) compare products of values
\* already known to be at most 2048, 2048 and 4, so they never fire.
encode_generate_response(r, buf_size) ==
    LET expected_data_len == r.image_width * r.image_height * r.channels
        payload_len == 16 + 16 + r.image_data_len
        total_len == 16 + payload_len
        fail(e) == [err |-> e, len |-> 0, wire |-> NoWire]
    IN
    IF ~r.has_data THEN fail("ERR_INTERNAL")
    ELSE IF BadDimension(r.image_width) THEN fail("ERR_INVALID_DIMENSIONS")
    ELSE IF BadDimension(r.image_height) THEN fail("ERR_INVALID_DIMENSIONS")
    ELSE IF r.channels # 3 /\ r.channels # 4 THEN fail("ERR_INVALID_DIMENSIONS")
    ELSE IF r.image_data_len # expected_data_len
        THEN fail("ERR_INVALID_DIMENSIONS")
    ELSE IF r.image_data_len > MAX_MESSAGE_SIZE - 16 - 16
        THEN fail("ERR_INTERNAL")
    ELSE IF total_len > buf_size THEN fail("ERR_INTERNAL")
    ELSE [err |-> "ERR_NONE", len |-> total_len,
          wire |-> [head |-> write_u32_be(PROTOCOL_MAGIC)
                             \o write_u16_be(PROTOCOL_VERSION_1)
                             \o write_u16_be(MSG_GENERATE_RESPONSE)
                             \o write_u32_be(payload_len)
                             \o write_u32_be(0)
                             \o write_u64_be(r.request_id)
                             \o write_u32_be(r.status)
                             \o write_u32_be(r.generation_time_ms)
                             \o write_u32_be(r.image_width)
                             \o write_u32_be(r.image_height)
                             \o write_u32_be(r.channels)
                             \o write_u32_be(r.image_data_len),
                    tail_len |-> r.image_data_len,
                    tail |-> r.image_data]]

\* encode_error_response: the error code, the number of bytes written and
\* the buffer's content.  has_data stands for error_msg # NULL.
encode_error_response(r, buf_size) ==
    LET payload_len == 8 + 4 + 4 + 2 + r.error_msg_len
        total_len == 16 + payload_len
        fail(e) == [err |-> e, len |-> 0, wire |-> NoWire]
    IN
    IF ~r.has_data /\ r.error_msg_len > 0 THEN fail("ERR_INTERNAL")
    ELSE IF payload_len > MAX_MESSAGE_SIZE - 16 THEN fail("ERR_INTERNAL")
    ELSE IF total_len > buf_size THEN fail("ERR_INTERNAL")
    ELSE [err |-> "ERR_NONE", len |-> total_len,
          wire |-> [head |-> write_u32_be(PROTOCOL_MAGIC)
                             \o write_u16_be(PROTOCOL_VERSION_1)
                             \o write_u16_be(MSG_ERROR)
                             \o write_u32_be(payload_len)
                             \o write_u32_be(0)
                             \o write_u64_be(r.request_id)
                             \o write_u32_be(r.status)
                             \o write_u32_be(error_code_t(r.error_code))
                             \o write_u16_be(r.error_msg_len),
                    tail_len |-> r.error_msg_len,
                    tail |-> IF r.error_msg_len > 0 THEN r.image_data
                             ELSE "none"]]

-----------------------------------------------------------------------------
(* Generation pipeline: generate.c.                                        *)

\* sd_wrapper_error_t, sd_wrapper.h:22-31
SdErrors == { "SD_WRAPPER_OK", "SD_WRAPPER_ERR_INVALID_PARAM",
              "SD_WRAPPER_ERR_MODEL_NOT_FOUND", "SD_WRAPPER_ERR_MODEL_CORRUPT",
              "SD_WRAPPER_ERR_OUT_OF_MEMORY", "SD_WRAPPER_ERR_GPU_ERROR",
              "SD_WRAPPER_ERR_INIT_FAILED", "SD_WRAPPER_ERR_GENERATION_FAILED" }

\* map_sd_error as it would be with the default branch alone
map_sd_error_default_only(sd_err) ==
    CASE sd_err = "SD_WRAPPER_OK" -> "ERR_NONE"
      [] OTHER -> "ERR_INTERNAL"

map_sd_error(sd_err) ==
    CASE sd_err = "SD_WRAPPER_OK" -> "ERR_NONE"
      [] sd_err = "SD_WRAPPER_ERR_INVALID_PARAM" -> "ERR_INVALID_PROMPT"
      [] sd_err = "SD_WRAPPER_ERR_OUT_OF_MEMORY" -> "ERR_OUT_OF_MEMORY"
      [] sd_err = "SD_WRAPPER_ERR_GPU_ERROR" -> "ERR_GPU_ERROR"
      [] OTHER -> "ERR_INTERNAL"

\* The sum of two uint32_t values, modulo 2^32.  A word of 2^31 or more is
\* the negative integer with the same 32 bits, as for ULt.
U32Add(a, b) ==
    IF (a < 0) # (b < 0) THEN a + b
    ELSE IF a >= 0
        THEN IF a > 2147483647 - b
             THEN (a - 2147483647 - 1) + (b - 2147483647 - 1)
             ELSE a + b
    ELSE IF a >= (-2147483647 - 1) - b THEN a + b
    ELSE (a + 2147483647 + 1) + (b + 2147483647 + 1)

\* prompt_buf_size is sizeof(prompt) = SD35_MAX_PROMPT_LENGTH + 1.  The
\* offset and the length are uint32_t and their sum is a uint32_t sum, which
\* wraps, compared with the size_t prompt_data_len (generate.c:45-51).
\* ERR_NONE means that clip_l_length bytes were copied from
\* prompt_data + clip_l_offset.
convert_request_params(r, prompt_buf_size) ==
    IF r.clip_l_length = 0 \/ ~ULt(r.clip_l_length, prompt_buf_size)
        THEN "ERR_INVALID_PROMPT"
    ELSE IF UGt(U32Add(r.clip_l_offset, r.clip_l_length), r.prompt_data_len)
        THEN "ERR_INVALID_PROMPT"
    ELSE "ERR_NONE"

\* variant: the engine is never reset
BeginGenerate_without_reset(r, performed, reset_ok) ==
    LET cerr == convert_request_params(r, SD35_MAX_PROMPT_LENGTH + 1) IN
    [err |-> cerr, reset |-> "none"]

\* process_generate_request up to its sd_wrapper_generate call: the error
\* it returns before the call, if any, and what the sd_wrapper_reset it
\* invoked returned ("none": no reset was invoked).  performed is
\* generation_performed, reset_ok what a reset would return.
BeginGenerate(r, performed, reset_ok) ==
    LET cerr == convert_request_params(r, SD35_MAX_PROMPT_LENGTH + 1) IN
    IF cerr # "ERR_NONE" THEN [err |-> cerr, reset |-> "none"]
    ELSE IF performed /\ ~reset_ok
        THEN [err |-> "ERR_INTERNAL", reset |-> "failed"]
    ELSE [err |-> "ERR_NONE", reset |-> IF performed THEN "ok" ELSE "none"]

NoImage == [has_data |-> FALSE, width |-> 0, height |-> 0, channels |-> 0,
            data_size |-> 0, over_u32 |-> FALSE]

Image(w, h, c, n) == [has_data |-> TRUE, width |-> w, height |-> h,
                      channels |-> c, data_size |-> n, over_u32 |-> FALSE]

\* The engine is an external collaborator: what sd_wrapper_generate may hand
\* back for a request.  over_u32 stands for a data_size above UINT32_MAX.
EngineOutcomes(r) ==
    { [sd_err |-> e, image |-> NoImage] :
        e \in { "SD_WRAPPER_ERR_INVALID_PARAM", "SD_WRAPPER_ERR_OUT_OF_MEMORY",
                "SD_WRAPPER_ERR_GPU_ERROR", "SD_WRAPPER_ERR_GENERATION_FAILED" } }
    \cup
    { [sd_err |-> "SD_WRAPPER_OK", image |-> i] :
        i \in { Image(r.width, r.height, 3, r.width * r.height * 3),
                Image(r.width, r.height, 4, r.width * r.height * 4),
                Image(r.width, r.height, 3, r.width * r.height * 3 - 1),
                Image(r.width, r.height, 1, r.width * r.height),
                Image(r.width, r.height + 64, 3, r.width * (r.height + 64) * 3),
                [Image(r.width, r.height, 4, 0) EXCEPT !.over_u32 = TRUE],
                NoImage } }

\* the engine kept its contract: the image asked for, 3 or 4 channels,
\* width * height * channels bytes
Conforming(r, out) ==
    /\ out.sd_err = "SD_WRAPPER_OK"
    /\ out.image.has_data /\ ~out.image.over_u32
    /\ out.image.width = r.width /\ out.image.height = r.height
    /\ out.image.channels \in {3, 4}
    /\ out.image.data_size = r.width * r.height * out.image.channels

\* sd35_generate_response_t and error_response_t in one record.  has_data
\* says that the data pointer (image_data or error_msg) is not NULL, and
\* image_data names the block it points to.
NoResp == [kind |-> "none", request_id |-> 0, status |-> 0,
           generation_time_ms |-> 0,
           image_width |-> 0, image_height |-> 0, channels |-> 0,
           image_data_len |-> 0, has_data |-> FALSE, image_data |-> "none",
           error_code |-> "ERR_NONE", error_msg_len |-> 0]

\* variant: the image is not compared with the request's width and height
FinishGenerate_without_request_match(r, out) ==
    LET image == out.image
        fail(freed) == [err |-> "ERR_INTERNAL", resp |-> NoResp, freed |-> freed,
                        leaked |-> FALSE, performed |-> FALSE]
    IN
    IF map_sd_error(out.sd_err) # "ERR_NONE"
        THEN [err |-> map_sd_error(out.sd_err), resp |-> NoResp, freed |-> FALSE,
              leaked |-> image.has_data, performed |-> FALSE]
    ELSE IF ~image.has_data THEN fail(FALSE)
    ELSE IF BadDimension(image.width) THEN fail(TRUE)
    ELSE IF BadDimension(image.height) THEN fail(TRUE)
    ELSE IF image.channels # 3 /\ image.channels # 4 THEN fail(TRUE)
    ELSE IF image.over_u32 THEN fail(TRUE)
    ELSE [err |-> "ERR_NONE",
          resp |-> [NoResp EXCEPT !.kind = "response",
                    !.request_id = r.request_id, !.status = STATUS_OK,
                    !.image_width = image.width, !.image_height = image.height,
                    !.channels = image.channels,
                    !.image_data_len = image.data_size, !.has_data = TRUE,
                    !.image_data = "image"],
          freed |-> FALSE, leaked |-> FALSE, performed |-> TRUE]

\* variant: the channel check returns without sd_wrapper_free_image
FinishGenerate_without_free(r, out) ==
    LET image == out.image
        fail(freed) == [err |-> "ERR_INTERNAL", resp |-> NoResp, freed |-> freed,
                        leaked |-> FALSE, performed |-> FALSE]
    IN
    IF map_sd_error(out.sd_err) # "ERR_NONE"
        THEN [err |-> map_sd_error(out.sd_err), resp |-> NoResp, freed |-> FALSE,
              leaked |-> image.has_data, performed |-> FALSE]
    ELSE IF ~image.has_data THEN fail(FALSE)
    ELSE IF image.width # r.width \/ image.height # r.height THEN fail(TRUE)
    ELSE IF BadDimension(image.width) THEN fail(TRUE)
    ELSE IF BadDimension(image.height) THEN fail(TRUE)
    ELSE IF image.channels # 3 /\ image.channels # 4 THEN fail(FALSE)
    ELSE IF image.over_u32 THEN fail(TRUE)
    ELSE [err |-> "ERR_NONE",
          resp |-> [NoResp EXCEPT !.kind = "response",
                    !.request_id = r.request_id, !.status = STATUS_OK,
                    !.image_width = image.width, !.image_height = image.height,
                    !.channels = image.channels,
                    !.image_data_len = image.data_size, !.has_data = TRUE,
                    !.image_data = "image"],
          freed |-> FALSE, leaked |-> FALSE, performed |-> TRUE]

\* process_generate_request from the engine's return on (generate.c:198-257):
\* the error code, the response structure, whether the engine's buffer was
\* freed here, and whether one is left allocated with no owner.
FinishGenerate(r, out) ==
    LET image == out.image
        fail(freed) == [err |-> "ERR_INTERNAL", resp |-> NoResp, freed |-> freed,
                        leaked |-> FALSE, performed |-> FALSE]
    IN
    IF map_sd_error(out.sd_err) # "ERR_NONE"
        THEN [err |-> map_sd_error(out.sd_err), resp |-> NoResp, freed |-> FALSE,
              leaked |-> image.has_data, performed |-> FALSE]
    ELSE IF ~image.has_data THEN fail(FALSE)
    ELSE IF image.width # r.width \/ image.height # r.height THEN fail(TRUE)
    ELSE IF BadDimension(image.width) THEN fail(TRUE)
    ELSE IF BadDimension(image.height) THEN fail(TRUE)
    ELSE IF image.channels # 3 /\ image.channels # 4 THEN fail(TRUE)
    ELSE IF image.over_u32 THEN fail(TRUE)
    ELSE [err |-> "ERR_NONE",
          resp |-> [NoResp EXCEPT !.kind = "response",
                    !.request_id = r.request_id, !.status = STATUS_OK,
                    !.image_width = image.width, !.image_height = image.height,
                    !.channels = image.channels,
                    !.image_data_len = image.data_size, !.has_data = TRUE,
                    !.image_data = "image"],
          freed |-> FALSE, leaked |-> FALSE, performed |-> TRUE]

\* is_server_error as it would be if it knew ERR_INTERNAL only
is_server_error_internal_only(code) == code = "ERR_INTERNAL"

\* main.c:286-307
is_server_error(code) ==
    code \in { "ERR_OUT_OF_MEMORY", "ERR_GPU_ERROR", "ERR_TIMEOUT", "ERR_INTERNAL" }

\* the error_response_t as it would be with status 400 for every kind
ErrorResponse_always_400(request_id, error_code, msg_len) ==
    [NoResp EXCEPT !.kind = "error", !.request_id = request_id,
                   !.error_code = error_code, !.error_msg_len = msg_len,
                   !.has_data = TRUE, !.image_data = "message",
                   !.status = STATUS_BAD_REQUEST]

\* the error_response_t send_error_response builds (main.c:326-335)
ErrorResponse(request_id, error_code, msg_len) ==
    [NoResp EXCEPT !.kind = "error", !.request_id = request_id,
                   !.error_code = error_code, !.error_msg_len = msg_len,
                   !.has_data = TRUE, !.image_data = "message",
                   !.status = IF is_server_error(error_code)
                              THEN STATUS_INTERNAL_SERVER_ERROR
                              ELSE STATUS_BAD_REQUEST]

-----------------------------------------------------------------------------
(* Socket endpoint: socket.c.                                              *)

\* getuid() of a process with credentials cr (socket.c:449)
getuid(cr) == cr.ruid

\* socket_auth_connection: cred_ok is whether getsockopt(SO_PEERCRED)
\* succeeded, cred_uid the uid it reported, cr the server's credentials.
socket_auth_connection(client_fd, cred_ok, cred_uid, cr) ==
    IF client_fd < 0 THEN "SOCKET_ERR_INVALID_FD"
    ELSE IF ~cred_ok THEN "SOCKET_ERR_AUTH_FAILED"
    ELSE IF cred_uid # getuid(cr) THEN "SOCKET_ERR_AUTH_UID_MISMATCH"
    ELSE "SOCKET_OK"

\* A filesystem: the environment variable, the directory ${XDG}/weave and
\* the entry ${XDG}/weave/weave.sock.  A socket entry is bound by "self"
\* (this process), by "other" (another live instance that listens on it) or
\* by "none" (its process is gone: stale).
Absent == [kind |-> "absent", owner |-> "none", mode |-> "none"]
SockEntry(owner, m) == [kind |-> "socket", owner |-> owner, mode |-> m]
RegularFile == [kind |-> "regular", owner |-> "none", mode |-> "0644"]

\* The system calls of socket_create that a run may see fail for a reason
\* the entries above do not decide (EMFILE, EACCES, EIO ...); "mkdir_eexist"
\* is the directory appearing between stat and mkdir (socket.c:211).
Faults == { "none", "chmod_dir", "mkdir", "mkdir_eexist", "probe_socket",
            "unlink", "socket", "bind", "chmod", "listen" }

socket_get_path(f) ==
    IF f.xdg = "unset" THEN "SOCKET_ERR_XDG_NOT_SET"
    ELSE IF f.xdg = "long" THEN "SOCKET_ERR_PATH_TOO_LONG"
    ELSE "SOCKET_OK"

create_socket_directory(f, fault) ==
    IF f.dir # "absent" THEN
        IF f.dir = "notdir" THEN [err |-> "SOCKET_ERR_MKDIR_FAILED", fs |-> f]
        ELSE IF f.dir # "0700" THEN
            IF fault = "chmod_dir" THEN [err |-> "SOCKET_ERR_CHMOD_FAILED", fs |-> f]
            ELSE [err |-> "SOCKET_OK", fs |-> [f EXCEPT !.dir = "0700"]]
        ELSE [err |-> "SOCKET_OK", fs |-> f]
    ELSE IF fault = "mkdir" THEN [err |-> "SOCKET_ERR_MKDIR_FAILED", fs |-> f]
    ELSE IF fault = "mkdir_eexist"
        THEN [err |-> "SOCKET_OK", fs |-> [f EXCEPT !.dir = "0755"]]
    ELSE [err |-> "SOCKET_OK", fs |-> [f EXCEPT !.dir = "0700"]]

\* connect() to the entry succeeds exactly when a process listens on it
ConnectSucceeds(f) == f.sock.kind = "socket" /\ f.sock.owner # "none"

\* is_socket_stale as it would be without the test connect
is_socket_stale_without_connect(f, socket_fails) ==
    IF f.sock.kind = "absent" THEN FALSE
    ELSE IF f.sock.kind # "socket" THEN FALSE
    ELSE TRUE

\* is_socket_stale: 1 (TRUE) if stale; socket_fails is the test socket's
\* socket() call failing
is_socket_stale(f, socket_fails) ==
    IF f.sock.kind = "absent" THEN FALSE
    ELSE IF f.sock.kind # "socket" THEN FALSE
    ELSE IF socket_fails THEN FALSE
    ELSE IF ConnectSucceeds(f) THEN FALSE
    ELSE TRUE

remove_stale_socket(f, fault) ==
    IF f.sock.kind # "absent" /\ fault = "unlink"
        THEN [err |-> "SOCKET_ERR_UNLINK_FAILED", fs |-> f]
    ELSE [err |-> "SOCKET_OK", fs |-> [f EXCEPT !.sock = Absent]]

\* variant: create_and_bind_socket without the close() after a failed bind
create_and_bind_socket_without_close(f, fault) ==
    IF fault = "socket" THEN [fd |-> -1, errno |-> "EMFILE", fs |-> f, held |-> 0]
    ELSE IF f.sock.kind # "absent"
        THEN [fd |-> -1, errno |-> "EADDRINUSE", fs |-> f, held |-> 1]
    ELSE IF fault = "bind" THEN [fd |-> -1, errno |-> "EACCES", fs |-> f, held |-> 1]
    ELSE [fd |-> 3, errno |-> "none", held |-> 1,
          fs |-> [f EXCEPT !.sock = SockEntry("self", "0755")]]

\* create_and_bind_socket: the descriptor (-1 on failure), errno, the
\* filesystem with the new entry bound by this process, and the number of
\* descriptors it opened and left open (held)
create_and_bind_socket(f, fault) ==
    IF fault = "socket" THEN [fd |-> -1, errno |-> "EMFILE", fs |-> f, held |-> 0]
    ELSE IF f.sock.kind # "absent"
        THEN [fd |-> -1, errno |-> "EADDRINUSE", fs |-> f, held |-> 0]
    ELSE IF fault = "bind" THEN [fd |-> -1, errno |-> "EACCES", fs |-> f, held |-> 0]
    ELSE [fd |-> 3, errno |-> "none", held |-> 1,
          fs |-> [f EXCEPT !.sock = SockEntry("self", "0755")]]

\* socket_create: the return value, *listen_fd, the path recorded in
\* g_socket_path, the filesystem it leaves, and the number of descriptors it
\* opened that are open when it returns (open_fds)
SocketCreateFail(e, f) == [err |-> e, listen_fd |-> -1, path |-> "", fs |-> f]

socket_create(f0, fault) ==
    LET d == create_socket_directory(f0, fault)
        f1 == d.fs
        stale1 == is_socket_stale(f1, fault = "probe_socket")
        rm1 == IF stale1 THEN remove_stale_socket(f1, fault)
               ELSE [err |-> "SOCKET_OK", fs |-> f1]
        f2 == rm1.fs
        b1 == create_and_bind_socket(f2, fault)
        retry == b1.fd < 0 /\ b1.errno = "EADDRINUSE" /\ is_socket_stale(f2, FALSE)
        rm2 == IF retry THEN remove_stale_socket(f2, fault)
               ELSE [err |-> "SOCKET_ERR_UNLINK_FAILED", fs |-> f2]
        b2 == IF b1.fd >= 0 THEN b1
              ELSE IF retry /\ rm2.err = "SOCKET_OK"
                  THEN create_and_bind_socket(rm2.fs, fault)
              ELSE [fd |-> -1, errno |-> b1.errno, fs |-> f2, held |-> 0]
        f3 == b2.fs
        bound == socket_get_path(f0) = "SOCKET_OK" /\ d.err = "SOCKET_OK"
                 /\ rm1.err = "SOCKET_OK"
        \* descriptors the two bind attempts left open, less the close()
        \* before the chmod and listen error returns
        opened == IF ~bound THEN 0
                  ELSE IF b1.fd >= 0 THEN b1.held ELSE b1.held + b2.held
        closed == IF bound /\ b2.fd >= 0 /\ fault \in {"chmod", "listen"}
                  THEN 1 ELSE 0
        r ==
            IF socket_get_path(f0) # "SOCKET_OK"
                THEN SocketCreateFail(socket_get_path(f0), f0)
            ELSE IF d.err # "SOCKET_OK" THEN SocketCreateFail(d.err, f1)
            ELSE IF rm1.err # "SOCKET_OK"
                THEN SocketCreateFail("SOCKET_ERR_BIND_FAILED", f1)
            ELSE IF b2.fd < 0 THEN SocketCreateFail("SOCKET_ERR_BIND_FAILED", f3)
            ELSE IF fault = "chmod"
                THEN SocketCreateFail("SOCKET_ERR_CHMOD_FAILED",
                                      [f3 EXCEPT !.sock = Absent])
            ELSE IF fault = "listen"
                THEN SocketCreateFail("SOCKET_ERR_LISTEN_FAILED",
                                      [f3 EXCEPT !.sock = Absent])
            ELSE [err |-> "SOCKET_OK", listen_fd |-> b2.fd, path |-> "canonical",
                  fs |-> [f3 EXCEPT !.sock = SockEntry("self", "0600")]]
    IN
    [err |-> r.err, listen_fd |-> r.listen_fd, path |-> r.path, fs |-> r.fs,
     open_fds |-> opened - closed]

\* socket_cleanup: the return value, g_socket_path after it, the filesystem
\* after it and the path it passed to unlink ("" when it called no unlink)
socket_cleanup(path, f, unlink_fails) ==
    IF path = "" THEN
        IF socket_get_path(f) # "SOCKET_OK"
            THEN [err |-> "SOCKET_OK", path |-> path, fs |-> f, unlinked |-> ""]
        ELSE IF f.sock.kind # "absent" /\ unlink_fails
            THEN [err |-> "SOCKET_ERR_UNLINK_FAILED", path |-> path, fs |-> f,
                  unlinked |-> "canonical"]
        ELSE [err |-> "SOCKET_OK", path |-> path,
              fs |-> [f EXCEPT !.sock = Absent], unlinked |-> "canonical"]
    ELSE IF f.sock.kind # "absent" /\ unlink_fails
        THEN [err |-> "SOCKET_ERR_UNLINK_FAILED", path |-> path, fs |-> f,
              unlinked |-> path]
    ELSE [err |-> "SOCKET_OK", path |-> "",
          fs |-> [f EXCEPT !.sock = Absent], unlinked |-> path]

\* socket_set_timeouts on a socket whose SO_RCVTIMEO and SO_SNDTIMEO are
\* opt.rcv and opt.snd seconds (0: none); fault names the setsockopt call
\* that fails.  The return value and the socket's options after it.
socket_set_timeouts(fd, opt, read_timeout_s, write_timeout_s, fault) ==
    IF fd < 0 THEN [err |-> "SOCKET_ERR_INVALID_FD", opt |-> opt]
    ELSE IF read_timeout_s > 0 /\ fault = "SO_RCVTIMEO"
        THEN [err |-> "SOCKET_ERR_TIMEOUT_FAILED", opt |-> opt]
    ELSE LET o1 == IF read_timeout_s > 0
                   THEN [opt EXCEPT !.rcv = read_timeout_s] ELSE opt
         IN  IF write_timeout_s > 0 /\ fault = "SO_SNDTIMEO"
                 THEN [err |-> "SOCKET_ERR_TIMEOUT_FAILED", opt |-> o1]
             ELSE [err |-> "SOCKET_OK",
                   opt |-> IF write_timeout_s > 0
                           THEN [o1 EXCEPT !.snd = write_timeout_s] ELSE o1]

\* socket_request_shutdown as it would be if it toggled the flag
socket_request_shutdown_toggle(flag) == 1 - flag

\* socket.c:553-572
\* the value each leaves in, or reads from, g_shutdown_requested
socket_request_shutdown(flag) == 1
socket_is_shutdown_requested(flag) == IF flag # 0 THEN 1 ELSE 0
socket_reset_shutdown(flag) == 0

-----------------------------------------------------------------------------
(* Inputs of the model.                                                    *)

\* "a cat in space" once per encoder: the first end-to-end scenario
ValidFrame ==
    [ len |-> 16 + 102, magic |-> PROTOCOL_MAGIC, version |-> 1,
      msg_type |-> MSG_GENERATE_REQUEST, payload_len |-> 102,
      request_id |-> 12345, model_id |-> 0, width |-> 512, height |-> 512,
      steps |-> 4, cfg_scale |-> F32(0, 129, 1048576), seed |-> 42,
      clip_l_offset |-> 0, clip_l_length |-> 14,
      clip_g_offset |-> 14, clip_g_length |-> 14,
      t5_offset |-> 28, t5_length |-> 14 ]

WithPayloadLen(f, n) == [f EXCEPT !.payload_len = n, !.len = 16 + n]

\* the frames a peer sends: the valid one, the largest valid dimensions,
\* and frames wrong in one field
Frames ==
    { ValidFrame,
      [ValidFrame EXCEPT !.request_id = 7, !.width = 2048, !.height = 2048],
      WithPayloadLen([ValidFrame EXCEPT !.magic = PROTOCOL_MAGIC - 1], 0),
      [ValidFrame EXCEPT !.magic = PROTOCOL_MAGIC - 1],
      WithPayloadLen(ValidFrame, MAX_REQUEST_SIZE - 16 + 1),
      WithPayloadLen(ValidFrame, 0),
      [ValidFrame EXCEPT !.version = 2],
      [ValidFrame EXCEPT !.width = 513],
      [ValidFrame EXCEPT !.model_id = 1],
      [ValidFrame EXCEPT !.steps = 0],
      [ValidFrame EXCEPT !.cfg_scale = F32(0, 255, 4194304)] }

NoFrame == WithPayloadLen([ValidFrame EXCEPT !.magic = 0, !.request_id = 0], 0)
NoReq == RequestOf(NoFrame)

\* credentials of the daemon process and the uids a peer may have
ServerCred == [ruid |-> 1000, euid |-> 1000]
PeerUids == {1000, 1001}

NoConn == [fd |-> -1, open |-> FALSE, auth_err |-> "none", timeouts |-> FALSE,
           handled |-> 0, written |-> FALSE]
NoRx == [data |-> FALSE, closed |-> FALSE]
NewGh == [full |-> FALSE, replies |-> 0, io_fail |-> FALSE, alloc_fail |-> FALSE,
          breach |-> FALSE, consumed |-> 0, short_write |-> FALSE,
          read_end |-> "none", wrote |-> FALSE, malloced |-> FALSE,
          sd_err |-> "none", pipe_err |-> "none", shut_pc |-> "none"]
NewHist == [created |-> FALSE, cleanup_unlink |-> "", open_fds |-> 0,
            requested |-> FALSE, query_ok |-> TRUE, calls |-> 0,
            loop_err |-> "none"]
NoFn == [name |-> "none"]

ServerFs == { [xdg |-> x, dir |-> "0700", sock |-> e] :
                x \in {"set"}, e \in {Absent, SockEntry("none", "0600"),
                                      SockEntry("other", "0600")} }
              \cup { [xdg |-> "unset", dir |-> "0700", sock |-> Absent] }
WorkerFs == { [xdg |-> "set", dir |-> "0700", sock |-> e] :
                e \in {Absent, SockEntry("other", "0600")} }

\* everything but mode and fs, as main() finds it
Fresh ==
    /\ pc = "start" /\ blocked = FALSE /\ intr = FALSE
    /\ g_shutdown_requested = 0
    /\ g_socket_fd = -1 /\ g_socket_owned = 0 /\ g_socket_path = ""
    /\ generation_performed = FALSE
    /\ exit_code = "EXIT_FAILURE"
    /\ monitor = "off" /\ stdin = "open"
    /\ pending = 0 /\ conn = NoConn /\ rx = NoRx /\ signals = 0
    /\ rtotal = "none" /\ wtotal = "none"
    /\ frame = NoFrame /\ req = NoReq /\ resp = NoResp /\ result = "none"
    /\ gh = NewGh /\ hist = NewHist

Init ==
    /\ mode \in {"server", "worker", "test"}
    /\ fs \in (IF mode = "server" THEN ServerFs ELSE WorkerFs)
    /\ Fresh
    /\ fnIn = NoFn /\ fnOut = NoFn

sockV == << g_socket_fd, g_socket_owned, g_socket_path, fs >>
thrV == << monitor, stdin >>
fnV == << fnIn, fnOut >>
hV == << rtotal, wtotal, frame, req, resp >>
sysV == << blocked, intr >>

-----------------------------------------------------------------------------
(* The daemon: main() of src/compute/src/main.c and what runs around it.   *)

\* main() up to the socket: argument check, setup_signals, model load.  Each
\* failure returns EXIT_FAILURE at once, without cleanup().
Startup ==
    /\ mode \in {"server", "worker"} /\ pc = "start"
    /\ \E ok \in BOOLEAN : pc' = IF ok THEN "sock_init" ELSE "exited"
    /\ UNCHANGED << mode, g_shutdown_requested, generation_performed, exit_code,
                    pending, conn, rx, signals, result, gh, hist,
                    sockV, thrV, fnV, hV, sysV >>

\* worker mode: socket_connect(args.socket_path)
ConnectWorker ==
    /\ mode = "worker" /\ pc = "sock_init"
    /\ \E ok \in BOOLEAN :
        IF ok
        THEN /\ g_socket_fd' = 3 /\ g_socket_owned' = 0
             /\ conn' = [NoConn EXCEPT !.fd = 3, !.open = TRUE]
             /\ pc' = "spawn"
        ELSE /\ g_socket_fd' = -1 /\ UNCHANGED << g_socket_owned, conn >>
             /\ pc' = "cleanup"
    /\ UNCHANGED << mode, g_shutdown_requested, generation_performed, exit_code,
                    pending, rx, signals, result, gh, hist, g_socket_path, fs,
                    thrV, fnV, hV, sysV >>

\* server mode: socket_create(&g_socket_fd), then g_socket_owned = 1
CreateServer ==
    /\ mode = "server" /\ pc = "sock_init"
    /\ \E fault \in Faults :
        LET r == socket_create(fs, fault) IN
        /\ fs' = r.fs /\ g_socket_fd' = r.listen_fd /\ g_socket_path' = r.path
        /\ IF r.err = "SOCKET_OK"
           THEN /\ g_socket_owned' = 1 /\ pc' = "a_loop"
                /\ hist' = [hist EXCEPT !.created = TRUE]
           ELSE /\ pc' = "cleanup" /\ UNCHANGED << g_socket_owned, hist >>
    /\ UNCHANGED << mode, g_shutdown_requested, generation_performed, exit_code,
                    pending, conn, rx, signals, result, gh,
                    thrV, fnV, hV, sysV >>

\* worker mode: pthread_create(stdin_monitor_thread); a failure is only warned
SpawnMonitor ==
    /\ pc = "spawn"
    /\ \E ok \in BOOLEAN : monitor' = IF ok THEN "reading" ELSE "off"
    /\ pc' = "w_loop"
    /\ UNCHANGED << mode, g_shutdown_requested, generation_performed, exit_code,
                    pending, conn, rx, signals, result, gh, hist, stdin,
                    sockV, fnV, hV, sysV >>

\* what handle_connection starts from
EnterHandler ==
    /\ pc' = "h_read_hdr" /\ blocked' = FALSE /\ intr' = FALSE
    /\ rtotal' = "none" /\ wtotal' = wtotal
    /\ frame' = NoFrame /\ req' = NoReq /\ resp' = NoResp
    /\ gh' = NewGh /\ result' = "none"

\* while (!socket_is_shutdown_requested()) { handle_connection(g_socket_fd) }
WorkerLoopCheck ==
    /\ pc = "w_loop"
    /\ LET q == socket_is_shutdown_requested(g_shutdown_requested) IN
        /\ hist' = [hist EXCEPT !.query_ok = @ /\ (hist.requested => q # 0)]
        /\ IF q # 0
           THEN /\ pc' = "w_done"
                /\ UNCHANGED << conn, result, gh, hV, sysV >>
           ELSE /\ conn' = [conn EXCEPT !.handled = 1]
                /\ EnterHandler
    /\ UNCHANGED << mode, g_shutdown_requested, generation_performed, exit_code,
                    pending, rx, signals, sockV, thrV, fnV >>

\* after the worker loop: exit_code = EXIT_SUCCESS
WorkerDone ==
    /\ pc = "w_done"
    /\ exit_code' = "EXIT_SUCCESS" /\ pc' = "cleanup"
    /\ UNCHANGED << mode, g_shutdown_requested, generation_performed,
                    pending, conn, rx, signals, result, gh, hist,
                    sockV, thrV, fnV, hV, sysV >>

\* cleanup() as it is in src/compute-daemon/src/main.c: socket_cleanup()
\* whatever the mode
CleanupUnlinksAlways(owned) == TRUE

\* cleanup() calls socket_cleanup() only for a socket this process created
CleanupUnlinks(owned) == owned # 0

\* cleanup(): close(g_socket_fd), then the guarded socket_cleanup(); main
\* returns exit_code after it
Cleanup ==
    /\ pc = "cleanup"
    /\ g_socket_fd' = -1
    /\ conn' = IF mode = "worker" THEN [conn EXCEPT !.open = FALSE] ELSE conn
    /\ IF CleanupUnlinks(g_socket_owned)
       THEN \E unlink_fails \in BOOLEAN :
              LET c == socket_cleanup(g_socket_path, fs, unlink_fails) IN
              /\ fs' = c.fs /\ g_socket_path' = c.path
              /\ hist' = [hist EXCEPT !.cleanup_unlink = c.unlinked]
       ELSE UNCHANGED << fs, g_socket_path, hist >>
    /\ pc' = "exited"
    /\ UNCHANGED << mode, g_shutdown_requested, generation_performed, exit_code,
                    pending, rx, signals, result, gh, g_socket_owned,
                    thrV, fnV, hV, sysV >>

-----------------------------------------------------------------------------
(* socket_accept_loop, socket.c:639-693.                                   *)

\* the branch as it would be if it tested for one error code only
AuthAdmits_unless_auth_failed(auth_err) == auth_err # "SOCKET_ERR_AUTH_FAILED"

\* the loop's branch on the authentication result (socket.c:664)
AuthAdmits(auth_err) == auth_err = "SOCKET_OK"

\* the number of open accepted descriptors after close(client_fd)
AfterClose(open_fds) == open_fds - 1

\* while (!g_shutdown_requested): leave with SOCKET_OK or go to accept()
AcceptLoopCheck ==
    /\ pc = "a_loop"
    /\ IF g_shutdown_requested # 0
       THEN /\ pc' = "a_done"
            /\ hist' = [hist EXCEPT !.loop_err = "SOCKET_OK"]
       ELSE /\ pc' = "a_accept" /\ UNCHANGED hist
    /\ UNCHANGED << mode, g_shutdown_requested, generation_performed, exit_code,
                    pending, conn, rx, signals, result, gh,
                    sockV, thrV, fnV, hV, sysV >>

\* The main thread enters accept(), read() or write() and sleeps in it.
EnterSyscall ==
    /\ pc \in {"a_accept", "h_read_hdr", "h_read_pay", "h_send"}
    /\ ~blocked
    /\ blocked' = TRUE /\ intr' = FALSE
    /\ UNCHANGED << mode, pc, g_shutdown_requested, generation_performed,
                    exit_code, pending, conn, rx, signals, result, gh, hist,
                    sockV, thrV, fnV, hV >>

\* accept() returns a new descriptor
AcceptReturn ==
    /\ pc = "a_accept" /\ blocked /\ pending > 0
    /\ pending' = pending - 1
    /\ conn' = [NoConn EXCEPT !.fd = 4, !.open = TRUE]
    /\ rx' = NoRx
    /\ hist' = [hist EXCEPT !.open_fds = @ + 1]
    /\ blocked' = FALSE /\ intr' = FALSE
    /\ pc' = "a_auth"
    /\ UNCHANGED << mode, g_shutdown_requested, generation_performed, exit_code,
                    signals, result, gh, sockV, thrV, fnV, hV >>

\* accept() returns -1 with EINTR: continue
AcceptEINTR ==
    /\ pc = "a_accept" /\ blocked /\ intr
    /\ blocked' = FALSE /\ intr' = FALSE
    /\ pc' = "a_loop"
    /\ UNCHANGED << mode, g_shutdown_requested, generation_performed, exit_code,
                    pending, conn, rx, signals, result, gh, hist,
                    sockV, thrV, fnV, hV >>

\* accept() returns -1 with another errno: return SOCKET_ERR_ACCEPT_FAILED
AcceptFail ==
    /\ pc = "a_accept" /\ blocked
    /\ blocked' = FALSE /\ intr' = FALSE
    /\ hist' = [hist EXCEPT !.loop_err = "SOCKET_ERR_ACCEPT_FAILED"]
    /\ pc' = "a_done"
    /\ UNCHANGED << mode, g_shutdown_requested, generation_performed, exit_code,
                    pending, conn, rx, signals, result, gh,
                    sockV, thrV, fnV, hV >>

\* socket_auth_connection(client_fd); on failure close and continue, else
\* socket_set_timeouts (its failure only warned) and handler(client_fd)
Authenticate ==
    /\ pc = "a_auth"
    /\ \E cred_ok \in BOOLEAN, cred_uid \in PeerUids, timeouts_ok \in BOOLEAN :
        LET auth_err == socket_auth_connection(conn.fd, cred_ok, cred_uid,
                                               ServerCred) IN
        IF AuthAdmits(auth_err)
        THEN /\ conn' = [conn EXCEPT !.auth_err = auth_err,
                                     !.timeouts = timeouts_ok,
                                     !.handled = @ + 1]
             /\ EnterHandler
             /\ UNCHANGED hist
        ELSE /\ conn' = [conn EXCEPT !.auth_err = auth_err, !.open = FALSE]
             /\ hist' = [hist EXCEPT !.open_fds = AfterClose(@)]
             /\ pc' = "a_loop"
             /\ UNCHANGED << result, gh, hV, sysV >>
    /\ UNCHANGED << mode, g_shutdown_requested, generation_performed, exit_code,
                    pending, rx, signals, sockV, thrV, fnV >>

\* main() after socket_accept_loop returned (main.c:731-737)
AcceptDone ==
    /\ pc = "a_done"
    /\ exit_code' = IF hist.loop_err = "SOCKET_OK" THEN "EXIT_SUCCESS"
                    ELSE exit_code
    /\ pc' = "cleanup"
    /\ UNCHANGED << mode, g_shutdown_requested, generation_performed,
                    pending, conn, rx, signals, result, gh, hist,
                    sockV, thrV, fnV, hV, sysV >>

-----------------------------------------------------------------------------
(* What happens around the main thread.                                    *)

Running == mode \in {"server", "worker"} /\ pc \notin {"start", "exited"}

\* SIGINT or SIGTERM is delivered to one of the process's threads and
HandlerPcs == {"h_read_hdr", "h_validate", "h_read_pay", "h_decode",
               "h_generate", "h_send", "h_ret"}

\* handle_connection has read a header and has not yet returned
ProcessingPcs == HandlerPcs \ {"h_read_hdr", "h_ret"}

\* where handle_connection stood when the flag went from 0 to 1 ("none" if
\* it was not processing a request, or the flag was set already)
ShutdownSeenAt(g) ==
    IF g_shutdown_requested = 0 /\ pc \in ProcessingPcs /\ g.shut_pc = "none"
    THEN [g EXCEPT !.shut_pc = pc] ELSE g

\* signal_handler runs socket_request_shutdown().  Only a system call of the
\* thread that took the signal returns EINTR (sa_flags = 0).
Signal ==
    /\ Running /\ signals < MaxSignals
    /\ signals' = signals + 1
    /\ g_shutdown_requested' = socket_request_shutdown(g_shutdown_requested)
    /\ hist' = [hist EXCEPT !.requested = TRUE]
    /\ gh' = ShutdownSeenAt(gh)
    /\ \E thread \in (IF monitor = "reading" THEN {"main", "monitor"}
                      ELSE {"main"}) :
         intr' = IF thread = "main" /\ blocked THEN TRUE ELSE intr
    /\ UNCHANGED << mode, pc, blocked, generation_performed, exit_code,
                    pending, conn, rx, result, sockV, thrV, fnV, hV >>

\* the parent closes the pipe or dies (eof), the read fails, or data arrives
StdinEvent ==
    /\ mode = "worker" /\ pc # "exited" /\ stdin = "open"
    /\ stdin' \in {"eof", "error", "data"}
    /\ UNCHANGED << mode, pc, g_shutdown_requested, generation_performed,
                    exit_code, pending, conn, rx, signals, result, gh, hist,
                    monitor, sockV, fnV, hV, sysV >>

\* stdin_monitor_thread as it would be if it closed the socket itself
MonitorStep_closes_socket ==
    /\ Running /\ monitor = "reading" /\ stdin # "open"
    /\ g_shutdown_requested' = socket_request_shutdown(g_shutdown_requested)
    /\ hist' = [hist EXCEPT !.requested = TRUE]
    /\ gh' = ShutdownSeenAt(gh)
    /\ monitor' = "done"
    /\ g_socket_fd' = -1
    /\ UNCHANGED << mode, pc, generation_performed, exit_code, pending, conn,
                    rx, signals, result, stdin, g_socket_owned, g_socket_path,
                    fs, fnV, hV, sysV >>

\* stdin_monitor_thread: its blocking read returns (EOF, error or
\* unexpected data) and it calls socket_request_shutdown()
MonitorStep ==
    /\ Running /\ monitor = "reading" /\ stdin # "open"
    /\ g_shutdown_requested' = socket_request_shutdown(g_shutdown_requested)
    /\ hist' = [hist EXCEPT !.requested = TRUE]
    /\ gh' = ShutdownSeenAt(gh)
    /\ monitor' = "done"
    /\ UNCHANGED << mode, pc, generation_performed, exit_code, pending, conn,
                    rx, signals, result, stdin, sockV, fnV, hV, sysV >>

\* a client connects to the listening socket
ClientConnect ==
    /\ mode = "server" /\ g_socket_fd >= 0 /\ pending < MaxPending
    /\ pending' = pending + 1
    /\ UNCHANGED << mode, pc, g_shutdown_requested, generation_performed,
                    exit_code, conn, rx, signals, result, gh, hist,
                    sockV, thrV, fnV, hV, sysV >>

\* the peer's bytes arrive
PeerSend ==
    /\ conn.open /\ ~rx.closed /\ ~rx.data
    /\ rx' = [rx EXCEPT !.data = TRUE]
    /\ UNCHANGED << mode, pc, g_shutdown_requested, generation_performed,
                    exit_code, pending, conn, signals, result, gh, hist,
                    sockV, thrV, fnV, hV, sysV >>

\* the peer closes its end
PeerClose ==
    /\ conn.open /\ ~rx.closed
    /\ rx' = [rx EXCEPT !.closed = TRUE]
    /\ UNCHANGED << mode, pc, g_shutdown_requested, generation_performed,
                    exit_code, pending, conn, signals, result, gh, hist,
                    sockV, thrV, fnV, hV, sysV >>

-----------------------------------------------------------------------------
(* The shutdown flag's three operations called directly, as                *)
(* test_socket.c:864-882 calls them.                                       *)

TestUnchanged ==
    UNCHANGED << mode, pc, generation_performed, exit_code, pending, conn, rx,
                 signals, gh, sockV, thrV, fnV, hV, sysV >>

TestRequestShutdown ==
    /\ mode = "test" /\ hist.calls < MaxCalls
    /\ g_shutdown_requested' = socket_request_shutdown(g_shutdown_requested)
    /\ hist' = [hist EXCEPT !.requested = TRUE, !.calls = @ + 1]
    /\ UNCHANGED result
    /\ TestUnchanged

TestIsShutdownRequested ==
    /\ mode = "test" /\ hist.calls < MaxCalls
    /\ LET q == socket_is_shutdown_requested(g_shutdown_requested) IN
        /\ result' = IF q # 0 THEN "1" ELSE "0"
        /\ hist' = [hist EXCEPT !.query_ok = @ /\ (hist.requested => q # 0),
                                !.calls = @ + 1]
    /\ UNCHANGED g_shutdown_requested
    /\ TestUnchanged

TestResetShutdown ==
    /\ mode = "test" /\ hist.calls < MaxCalls
    /\ g_shutdown_requested' = socket_reset_shutdown(g_shutdown_requested)
    /\ hist' = [hist EXCEPT !.requested = FALSE, !.calls = @ + 1]
    /\ UNCHANGED result
    /\ TestUnchanged

-----------------------------------------------------------------------------
(* handle_connection, main.c:375-509, with read_full, write_full and       *)
(* send_error_response.                                                    *)

\* What one return of read() is: "eintr" (-1, EINTR), "error" (-1, another
\* errno), "timeout" (-1, EAGAIN after SO_RCVTIMEO), "eof" (0), "partial"
\* (fewer bytes than still wanted), "rest" (all the bytes still wanted).
ReadOutcomes == {"eintr", "error", "timeout", "eof", "partial", "rest"}
WriteOutcomes == {"eintr", "error", "partial", "rest"}

\* read_full as it would be if it took a return of 0 for the last bytes
read_full_step_eof_is_done(n) ==
    CASE n = "eintr" -> "retry"
      [] n \in {"error", "timeout"} -> "fail"
      [] n = "eof" -> "done"
      [] n = "partial" -> "again"
      [] n = "rest" -> "done"

\* read_full's loop on one return of read()
read_full_step(n) ==
    CASE n = "eintr" -> "retry"
      [] n \in {"error", "timeout"} -> "fail"
      [] n = "eof" -> "fail"
      [] n = "partial" -> "again"
      [] n = "rest" -> "done"

\* write_full as it would be if it returned after its first write()
write_full_step_single_write(n) ==
    CASE n = "eintr" -> "retry"
      [] n = "error" -> "fail"
      [] n = "partial" -> "done"
      [] n = "rest" -> "done"

\* write_full's loop on one return of write()
write_full_step(n) ==
    CASE n = "eintr" -> "retry"
      [] n = "error" -> "fail"
      [] n = "partial" -> "again"
      [] n = "rest" -> "done"

\* send_error_response as it would be if it returned before write_full
SendError_without_write(request_id, error_code, msg_len) ==
    /\ resp' = ErrorResponse(request_id, error_code, msg_len)
    /\ wtotal' = "none"
    /\ pc' = "h_ret" /\ result' = "0"

\* send_error_response up to its write_full.  handle_connection ignores its
\* return value and returns 0.
SendError(request_id, error_code, msg_len) ==
    LET e == encode_error_response(
                 ErrorResponse(request_id, error_code, msg_len),
                 ERROR_BUF_SIZE) IN
    /\ resp' = ErrorResponse(request_id, error_code, msg_len)
    /\ wtotal' = "none"
    /\ IF e.err # "ERR_NONE"
       THEN pc' = "h_ret" /\ result' = "0"
       ELSE pc' = "h_send" /\ result' = result

\* read() returns inside read_full(header, 16) or read_full(payload).  A
\* read_full call takes its bytes in at most two pieces.
ReadReturn(n) ==
    /\ pc \in {"h_read_hdr", "h_read_pay"} /\ blocked
    /\ CASE n = "eintr" -> intr
         [] n = "eof" -> ~rx.data /\ rx.closed
         [] n = "partial" -> rx.data /\ rtotal = "none"
         [] n = "rest" -> rx.data
         [] n = "timeout" -> conn.timeouts /\ ~rx.data /\ ~rx.closed
         [] n = "error" -> TRUE
    /\ blocked' = FALSE /\ intr' = FALSE
    /\ rx' = IF n \in {"partial", "rest"} THEN [rx EXCEPT !.data = FALSE] ELSE rx
    /\ LET d == read_full_step(n)
           \* what this read() ran into, whatever read_full makes of it
           gh0 == IF n \in {"eof", "error", "timeout"}
                  THEN [gh EXCEPT !.read_end = n] ELSE gh
       IN
        CASE d = "retry" -> gh' = gh0 /\ UNCHANGED << pc, rtotal, frame, result >>
          [] d = "again" ->
                /\ rtotal' = "some" /\ gh' = gh0
                /\ UNCHANGED << pc, frame, result >>
          [] d = "fail" ->
                /\ pc' = "h_ret" /\ result' = "-1"
                /\ gh' = [gh0 EXCEPT !.io_fail = TRUE]
                /\ UNCHANGED << rtotal, frame >>
          [] d = "done" ->
                IF pc = "h_read_hdr"
                THEN \E f \in Frames :
                       /\ frame' = f
                       /\ gh' = [gh0 EXCEPT !.consumed = HEADER_SIZE,
                                            !.full = (f.payload_len = 0)]
                       /\ pc' = "h_validate"
                       /\ UNCHANGED << rtotal, result >>
                ELSE /\ gh' = [gh0 EXCEPT !.consumed = HEADER_SIZE + frame.payload_len,
                                          !.full = TRUE]
                     /\ pc' = "h_decode"
                     /\ UNCHANGED << rtotal, frame, result >>
    /\ UNCHANGED << mode, g_shutdown_requested, generation_performed, exit_code,
                    pending, conn, signals, hist, wtotal, req, resp,
                    sockV, thrV, fnV >>

\* steps 2-4: magic, payload length, malloc
Validate ==
    /\ pc = "h_validate"
    /\ IF frame.magic # PROTOCOL_MAGIC
       THEN /\ SendError(0, "ERR_INVALID_MAGIC", 20)
            /\ UNCHANGED << rtotal, gh >>
       ELSE IF frame.payload_len > MAX_REQUEST_SIZE - HEADER_SIZE
       THEN /\ SendError(0, "ERR_INTERNAL", 17)
            /\ UNCHANGED << rtotal, gh >>
       ELSE \E malloc_ok \in BOOLEAN :
              IF ~malloc_ok
              THEN /\ pc' = "h_ret" /\ result' = "-1"
                   /\ gh' = [gh EXCEPT !.alloc_fail = TRUE]
                   /\ UNCHANGED << resp, wtotal, rtotal >>
              ELSE IF frame.payload_len > 0
              THEN /\ pc' = "h_read_pay" /\ rtotal' = "none"
                   /\ gh' = [gh EXCEPT !.malloced = TRUE]
                   /\ UNCHANGED << resp, wtotal, result >>
              ELSE /\ pc' = "h_decode"
                   /\ gh' = [gh EXCEPT !.malloced = TRUE]
                   /\ UNCHANGED << resp, wtotal, result, rtotal >>
    /\ UNCHANGED << mode, g_shutdown_requested, generation_performed, exit_code,
                    pending, conn, rx, signals, hist, frame, req,
                    sockV, thrV, fnV, sysV >>

\* decode_generate_request, then process_generate_request up to the call
\* of the engine: convert_request_params and the reset between generations
Decode ==
    /\ pc = "h_decode"
    /\ LET err == decode_generate_request(frame)
           r == RequestOf(frame)
       IN
       IF err # "ERR_NONE"
       THEN SendError(0, err, 15) /\ UNCHANGED << req, gh >>
       ELSE /\ req' = r
            /\ \E reset_ok \in BOOLEAN :
                 LET b == BeginGenerate(r, generation_performed, reset_ok) IN
                 IF b.err # "ERR_NONE"
                 THEN /\ SendError(r.request_id, b.err, 17)
                      /\ gh' = [gh EXCEPT !.pipe_err = b.err]
                 ELSE /\ pc' = "h_generate"
                      /\ UNCHANGED << resp, wtotal, result, gh >>
    /\ UNCHANGED << mode, g_shutdown_requested, generation_performed, exit_code,
                    pending, conn, rx, signals, hist, frame, rtotal,
                    sockV, thrV, fnV, sysV >>

\* sd_wrapper_generate returns; the rest of process_generate_request, the
\* realloc and encode_generate_response
Generate ==
    /\ pc = "h_generate"
    /\ \E out \in EngineOutcomes(req), realloc_ok \in BOOLEAN :
        LET g == FinishGenerate(req, out)
            response_buf_size == 16 + 16 + 16 + g.resp.image_data_len
            enc == encode_generate_response(g.resp, response_buf_size)
            breach == out.sd_err = "SD_WRAPPER_OK" /\ ~Conforming(req, out)
            gh1 == [gh EXCEPT !.breach = breach, !.sd_err = out.sd_err,
                              !.pipe_err = g.err]
        IN
        /\ generation_performed' = (generation_performed \/ g.performed)
        /\ IF g.err # "ERR_NONE"
           THEN /\ SendError(req.request_id, g.err, 17)
                /\ gh' = gh1
           ELSE IF ~realloc_ok
           THEN /\ pc' = "h_ret" /\ result' = "-1"
                /\ gh' = [gh1 EXCEPT !.alloc_fail = TRUE]
                /\ UNCHANGED << resp, wtotal >>
           ELSE IF enc.err # "ERR_NONE"
           THEN /\ pc' = "h_ret" /\ result' = "-1"
                /\ gh' = gh1
                /\ UNCHANGED << resp, wtotal >>
           ELSE /\ resp' = g.resp /\ wtotal' = "none"
                /\ pc' = "h_send"
                /\ gh' = gh1
                /\ UNCHANGED result
    /\ UNCHANGED << mode, g_shutdown_requested, exit_code,
                    pending, conn, rx, signals, hist, frame, req, rtotal,
                    sockV, thrV, fnV, sysV >>

\* write() returns inside write_full.  A write_full call hands its bytes
\* over in at most two pieces.
WriteReturn(n) ==
    /\ pc = "h_send" /\ blocked
    /\ CASE n = "eintr" -> intr
         [] n = "partial" -> wtotal = "none"
         [] n = "rest" -> TRUE
         [] n = "error" -> TRUE
    /\ blocked' = FALSE /\ intr' = FALSE
    /\ LET d == write_full_step(n) IN
        CASE d = "retry" -> UNCHANGED << pc, wtotal, conn, gh, result >>
          [] d = "again" ->
                /\ wtotal' = "some"
                /\ conn' = [conn EXCEPT !.written = TRUE]
                /\ gh' = [gh EXCEPT !.wrote = TRUE]
                /\ UNCHANGED << pc, result >>
          [] d = "fail" ->
                /\ pc' = "h_ret"
                /\ result' = IF resp.kind = "error" THEN "0" ELSE "-1"
                /\ gh' = [gh EXCEPT !.io_fail = TRUE]
                /\ wtotal' = "none"
                /\ UNCHANGED conn
          [] d = "done" ->
                /\ pc' = "h_ret" /\ result' = "0"
                /\ conn' = [conn EXCEPT !.written = TRUE]
                /\ gh' = [gh EXCEPT !.replies = @ + (IF n = "rest" THEN 1 ELSE 0),
                                    !.short_write = (n # "rest"),
                                    !.wrote = TRUE]
                /\ wtotal' = "none"
    /\ UNCHANGED << mode, g_shutdown_requested, generation_performed, exit_code,
                    pending, rx, signals, hist, rtotal, frame, req, resp,
                    sockV, thrV, fnV >>

\* handle_connection has returned: the worker loop breaks on a nonzero
\* result; the accept loop closes the descriptor and goes round
\* the return of handle_connection as it would be if the accept loop
\* returned on a handler error
HandlerReturn_stops_on_error ==
    /\ pc = "h_ret"
    /\ IF mode = "worker"
       THEN /\ pc' = IF result # "0" THEN "w_done" ELSE "w_loop"
            /\ UNCHANGED << conn, hist >>
       ELSE /\ conn' = [conn EXCEPT !.open = FALSE]
            /\ hist' = [hist EXCEPT !.open_fds = AfterClose(@)]
            /\ pc' = IF result # "0" THEN "a_done" ELSE "a_loop"
    /\ UNCHANGED << mode, g_shutdown_requested, generation_performed, exit_code,
                    pending, rx, signals, result, gh,
                    sockV, thrV, fnV, hV, sysV >>

\* handle_connection returns: to the worker's loop (main.c:706-718), or to
\* socket_accept_loop, which closes client_fd and goes on (socket.c:677-686)
HandlerReturn ==
    /\ pc = "h_ret"
    /\ IF mode = "worker"
       THEN /\ pc' = IF result # "0" THEN "w_done" ELSE "w_loop"
            /\ UNCHANGED << conn, hist >>
       ELSE /\ conn' = [conn EXCEPT !.open = FALSE]
            /\ hist' = [hist EXCEPT !.open_fds = AfterClose(@)]
            /\ pc' = "a_loop"
    /\ UNCHANGED << mode, g_shutdown_requested, generation_performed, exit_code,
                    pending, rx, signals, result, gh,
                    sockV, thrV, fnV, hV, sysV >>

-----------------------------------------------------------------------------

\* steps of the main thread that need no failure of a system call
MainProgress ==
    \/ Startup \/ ConnectWorker \/ CreateServer \/ SpawnMonitor
    \/ WorkerLoopCheck \/ WorkerDone \/ Cleanup
    \/ AcceptLoopCheck \/ EnterSyscall \/ AcceptReturn \/ AcceptEINTR
    \/ Authenticate \/ AcceptDone
    \/ (\E n \in ReadOutcomes \ {"error"} : ReadReturn(n))
    \/ Validate \/ Decode \/ Generate
    \/ (\E n \in WriteOutcomes \ {"error"} : WriteReturn(n))
    \/ HandlerReturn

Next ==
    \/ Startup
    \/ ConnectWorker
    \/ CreateServer
    \/ SpawnMonitor
    \/ WorkerLoopCheck
    \/ WorkerDone
    \/ Cleanup
    \/ AcceptLoopCheck
    \/ EnterSyscall
    \/ AcceptReturn
    \/ AcceptEINTR
    \/ AcceptFail
    \/ Authenticate
    \/ AcceptDone
    \/ \E n \in ReadOutcomes : ReadReturn(n)
    \/ Validate
    \/ Decode
    \/ Generate
    \/ \E n \in WriteOutcomes : WriteReturn(n)
    \/ HandlerReturn
    \/ Signal
    \/ StdinEvent
    \/ MonitorStep
    \/ ClientConnect
    \/ PeerSend
    \/ PeerClose
    \/ TestRequestShutdown
    \/ TestIsShutdownRequested
    \/ TestResetShutdown

Spec == Init /\ [][Next]_vars

\* The scheduler runs a thread that can run; a system call returns when
\* what it waits for is there.  No fairness for the peer, the clients, the
\* signals or the failures of system calls.
FairSpec == Spec /\ WF_vars(MainProgress) /\ WF_vars(MonitorStep)

-----------------------------------------------------------------------------
(* socket_auth_connection and socket_create called once on each input of   *)
(* a bounded set; the daemon's variables rest.                             *)

Uids == {0, 1000, 1001}

AuthInputs ==
    [ fd : {-1, 4}, cred_ok : BOOLEAN, cred_uid : Uids, ruid : Uids, euid : Uids ]

InitAuth ==
    /\ mode = "auth" /\ fs \in { f \in WorkerFs : f.sock = Absent } /\ Fresh
    /\ fnIn \in AuthInputs /\ fnOut = NoFn

CallAuth ==
    /\ mode = "auth" /\ fnOut = NoFn
    /\ fnOut' = [ name |-> "socket_auth_connection",
                  err |-> socket_auth_connection(
                              fnIn.fd, fnIn.cred_ok, fnIn.cred_uid,
                              [ruid |-> fnIn.ruid, euid |-> fnIn.euid]) ]
    /\ UNCHANGED << mode, pc, g_shutdown_requested, generation_performed,
                    exit_code, pending, conn, rx, signals, result, gh, hist,
                    fnIn, sockV, thrV, hV, sysV >>

NextAuth == CallAuth

SpecAuth == InitAuth /\ [][NextAuth]_vars

\* The filesystems socket_create may find: an entry can exist only in a
\* directory, and no entry is bound by this process before it ran.
FsStates ==
    { [xdg |-> x, dir |-> d, sock |-> Absent] :
        x \in {"set", "unset", "long"}, d \in {"absent", "notdir"} }
    \cup
    { [xdg |-> x, dir |-> d, sock |-> e] :
        x \in {"set", "unset", "long"}, d \in {"0700", "0755"},
        e \in {Absent, SockEntry("none", "0600"), SockEntry("other", "0600"),
               RegularFile} }

InitCreate ==
    /\ mode = "create" /\ fs \in { f \in WorkerFs : f.sock = Absent } /\ Fresh
    /\ fnIn \in [ fs : FsStates, fault : Faults ] /\ fnOut = NoFn

CallCreate ==
    /\ mode = "create" /\ fnOut = NoFn
    /\ fnOut' = [ name |-> "socket_create",
                  r |-> socket_create(fnIn.fs, fnIn.fault) ]
    /\ UNCHANGED << mode, pc, g_shutdown_requested, generation_performed,
                    exit_code, pending, conn, rx, signals, result, gh, hist,
                    fnIn, sockV, thrV, hV, sysV >>

NextCreate == CallCreate

SpecCreate == InitCreate /\ [][NextCreate]_vars

-----------------------------------------------------------------------------
(* decode_generate_request called once on each frame of a bounded set.     *)

\* frames with every combination of passing and failing gates
OrderInputs ==
    { [ValidFrame EXCEPT
          !.len = CASE lk = "short" -> 15
                    [] lk = "cut" -> 16 + pl - 1
                    [] lk = "full" -> 16 + pl,
          !.payload_len = pl, !.magic = mg, !.version = v, !.msg_type = t,
          !.model_id = mid, !.width = wh[1], !.height = wh[2], !.steps = st,
          !.cfg_scale = c, !.t5_length = tl] :
        lk \in {"short", "cut", "full"},
        pl \in {59, 102, MAX_MESSAGE_SIZE - 15},
        mg \in {PROTOCOL_MAGIC, PROTOCOL_MAGIC - 1},
        v \in {0, 1, 2},
        t \in {MSG_GENERATE_REQUEST, MSG_GENERATE_RESPONSE},
        mid \in {0, 1},
        wh \in {<<512, 512>>, <<0, 512>>, <<512, 2112>>},
        st \in {0, 4, 101},
        c \in {F32(0, 129, 1048576), F32(0, 255, 4194304)},
        tl \in {14, 257} }

\* every width against heights around the limits, and the other way round
EdgeDimensions == {0, 63, 64, 65, 1024, 2048, 2049, 2112, MaxDimension}

DimensionInputs ==
    { [ValidFrame EXCEPT !.width = IF swap THEN e ELSE a,
                         !.height = IF swap THEN a ELSE e] :
        swap \in BOOLEAN, a \in 0..MaxDimension, e \in EdgeDimensions }

\* one (offset, length) pair takes 32-bit values around the limits, the
\* wrapping ones included (words from 2^31 up are written as negative
\* integers); the prompt region has 1, 42 or 300 bytes
PromptOffsets == {0, 1, 28, 41, 42, 43, 44, 45, 300, 2147483647,
                  -2147483000, -256, -15, -14, -6, -1}
PromptLengths == {0, 1, 10, 14, 15, 42, 256, 257, 2147483647, -1}

PromptInputs ==
    { [WithPayloadLen(ValidFrame, 60 + n) EXCEPT
          !.clip_l_offset = 0, !.clip_l_length = 1,
          !.clip_g_offset = 0, !.clip_g_length = 1,
          !.t5_offset = 0, !.t5_length = 1,
          ![pair[1]] = off, ![pair[2]] = ln] :
        n \in {1, 42, 300},
        pair \in { <<"clip_l_offset", "clip_l_length">>,
                   <<"clip_g_offset", "clip_g_length">>,
                   <<"t5_offset", "t5_length">> },
        off \in PromptOffsets, ln \in PromptLengths }

\* every proper prefix of two valid frames
PrefixInputs ==
    { g \in { [f EXCEPT !.len = k] :
                f \in { ValidFrame,
                        [WithPayloadLen(ValidFrame, 61) EXCEPT
                            !.clip_l_offset = 0, !.clip_l_length = 1,
                            !.clip_g_offset = 0, !.clip_g_length = 1,
                            !.t5_offset = 0, !.t5_length = 1] },
                k \in 0..(16 + 102) } :
        g.len < 16 + g.payload_len }

\* cfg_scale bit patterns: zeros, denormals, values around 20.0, the
\* largest finite values, infinities and NaNs, of both signs
CfgInputs ==
    { [ValidFrame EXCEPT !.cfg_scale = F32(sg, e, m)] :
        sg \in {0, 1},
        e \in {0, 1, 126, 127, 130, 131, 132, 254, 255},
        m \in {0, 1, 2097151, 2097152, 2097153, 4194304, 8388607} }

DecodeInputs ==
    OrderInputs \cup DimensionInputs \cup PromptInputs \cup PrefixInputs
    \cup CfgInputs

InitDecode ==
    /\ mode = "decode" /\ fs \in { f \in WorkerFs : f.sock = Absent } /\ Fresh
    /\ fnIn \in DecodeInputs /\ fnOut = NoFn

CallDecode ==
    /\ mode = "decode" /\ fnOut = NoFn
    /\ fnOut' = [ name |-> "decode_generate_request",
                  err |-> decode_generate_request(fnIn),
                  req |-> RequestOf(fnIn),
                  extent |-> decode_read_extent(fnIn) ]
    /\ UNCHANGED << mode, pc, g_shutdown_requested, generation_performed,
                    exit_code, pending, conn, rx, signals, result, gh, hist,
                    fnIn, sockV, thrV, hV, sysV >>

NextDecode == CallDecode

SpecDecode == InitDecode /\ [][NextDecode]_vars

-----------------------------------------------------------------------------
(* encode_generate_response and encode_error_response called once on each  *)
(* response structure and buffer size of a bounded set.                    *)

ImageResponse(rid, st, t, w, h, c, n) ==
    [NoResp EXCEPT !.kind = "response", !.request_id = rid, !.status = st,
                   !.generation_time_ms = t, !.image_width = w,
                   !.image_height = h, !.channels = c, !.image_data_len = n,
                   !.has_data = TRUE, !.image_data = "image"]

\* request_id, status and generation_time_ms of the responses encoded
ResponseMeta == { <<12345, STATUS_OK, 10000>>, <<0, 0, 0>>,
                  <<2147483647, STATUS_INTERNAL_SERVER_ERROR, 2147483647>> }

\* every aligned width and height, 3 and 4 channels, the matching data
\* length; the buffer exact, one byte short, or ample
MatchedInputs ==
    { [fn |-> "encode_generate_response",
       r |-> ImageResponse(m[1], m[2], m[3], 64 * a, 64 * b, c,
                           64 * a * 64 * b * c),
       buf_size |-> 48 + 64 * a * 64 * b * c + slack] :
        m \in ResponseMeta, a \in 1..32, b \in 1..32, c \in {3, 4},
        slack \in {-1, 0, 4096} }

\* data lengths that differ from width * height * channels, with buffers from
\* empty to ample
MismatchedInputs ==
    { [fn |-> "encode_generate_response",
       r |-> ImageResponse(1, STATUS_OK, 100, w, h, c, n),
       buf_size |-> IF b[1] = "abs" THEN b[2] ELSE 48 + n + b[2]] :
        w \in {64, 512, 2048}, h \in {64, 512, 2048}, c \in {3, 4},
        n \in {0, 1, 64 * 64 * 3 - 1, 512 * 512 * 3 - 1, 512 * 512 * 3 + 100,
               512 * 512 * 4, 2048 * 2048 * 3, 2048 * 2048 * 4 + 1,
               MAX_MESSAGE_SIZE - 32},
        b \in { <<"abs", 0>>, <<"abs", 15>>, <<"abs", 47>>, <<"abs", 48>>,
                <<"rel", -1>>, <<"rel", 0>>, <<"abs", 1024 * 1024>>,
                <<"abs", 32 * 1024 * 1024>> } }

\* responses refused for another reason: no image, a dimension out of range
\* or unaligned (1752 * 1995 * 3 is 40 below 10 MiB), a channel count other
\* than 3 and 4
RefusedInputs ==
    { [fn |-> "encode_generate_response", r |-> r, buf_size |-> b] :
        r \in { [ImageResponse(1, STATUS_OK, 100, 512, 512, 3, 512 * 512 * 3)
                    EXCEPT !.has_data = FALSE, !.image_data = "none"],
                ImageResponse(1, STATUS_OK, 100, 0, 512, 3, 0),
                ImageResponse(1, STATUS_OK, 100, 512, 2112, 3, 512 * 2112 * 3),
                ImageResponse(1, STATUS_OK, 100, 1752, 1995, 3, 1752 * 1995 * 3),
                ImageResponse(1, STATUS_OK, 100, 512, 512, 1, 512 * 512),
                ImageResponse(1, STATUS_OK, 100, 512, 512, 5, 512 * 512 * 5) },
        b \in {0, 1024 * 1024, 32 * 1024 * 1024} }

\* error responses of every kind, message lengths up to the largest a
\* uint16_t holds, with and without a message pointer
ErrorInputs ==
    { [fn |-> "encode_error_response",
       r |-> [NoResp EXCEPT !.kind = "error", !.request_id = rid,
                            !.status = st, !.error_code = k,
                            !.error_msg_len = n, !.has_data = p,
                            !.image_data = IF p THEN "message" ELSE "none"],
       buf_size |-> b] :
        rid \in {0, 12345}, st \in {STATUS_BAD_REQUEST,
                                    STATUS_INTERNAL_SERVER_ERROR},
        k \in ErrorCodes \ {"ERR_NONE"}, n \in {0, 17, 4062, 4063, 65535},
        p \in BOOLEAN,
        b \in {0, 33, 34, 34 + 17, ERROR_BUF_SIZE, 65536 + 34} }

EncodeInputs ==
    MatchedInputs \cup MismatchedInputs \cup RefusedInputs \cup ErrorInputs

InitEncode ==
    /\ mode = "encode" /\ fs \in { f \in WorkerFs : f.sock = Absent } /\ Fresh
    /\ fnIn \in EncodeInputs /\ fnOut = NoFn

CallEncodeResponse ==
    /\ mode = "encode" /\ fnOut = NoFn
    /\ fnIn.fn = "encode_generate_response"
    /\ LET e == encode_generate_response(fnIn.r, fnIn.buf_size) IN
         fnOut' = [ name |-> "encode_generate_response", err |-> e.err,
                    len |-> e.len, wire |-> e.wire ]
    /\ UNCHANGED << mode, pc, g_shutdown_requested, generation_performed,
                    exit_code, pending, conn, rx, signals, result, gh, hist,
                    fnIn, sockV, thrV, hV, sysV >>

CallEncodeError ==
    /\ mode = "encode" /\ fnOut = NoFn
    /\ fnIn.fn = "encode_error_response"
    /\ LET e == encode_error_response(fnIn.r, fnIn.buf_size) IN
         fnOut' = [ name |-> "encode_error_response", err |-> e.err,
                    len |-> e.len, wire |-> e.wire ]
    /\ UNCHANGED << mode, pc, g_shutdown_requested, generation_performed,
                    exit_code, pending, conn, rx, signals, result, gh, hist,
                    fnIn, sockV, thrV, hV, sysV >>

NextEncode == CallEncodeResponse \/ CallEncodeError

SpecEncode == InitEncode /\ [][NextEncode]_vars

-----------------------------------------------------------------------------
(* socket_set_timeouts called once on each socket and argument list of a   *)
(* bounded set.                                                            *)

TimeoutArgs == {-60, -1, 0, 1, 5, 60}

TimeoutInputs ==
    [ fd : {-1, 5}, opt : [rcv : {0, 60}, snd : {0, 5}],
      read_timeout_s : TimeoutArgs, write_timeout_s : TimeoutArgs,
      fault : {"none", "SO_RCVTIMEO", "SO_SNDTIMEO"} ]

InitTimeouts ==
    /\ mode = "timeouts" /\ fs \in { f \in WorkerFs : f.sock = Absent } /\ Fresh
    /\ fnIn \in TimeoutInputs /\ fnOut = NoFn

CallSetTimeouts ==
    /\ mode = "timeouts" /\ fnOut = NoFn
    /\ fnOut' = [ name |-> "socket_set_timeouts",
                  r |-> socket_set_timeouts(fnIn.fd, fnIn.opt,
                            fnIn.read_timeout_s, fnIn.write_timeout_s,
                            fnIn.fault) ]
    /\ UNCHANGED << mode, pc, g_shutdown_requested, generation_performed,
                    exit_code, pending, conn, rx, signals, result, gh, hist,
                    fnIn, sockV, thrV, hV, sysV >>

NextTimeouts == CallSetTimeouts

SpecTimeouts == InitTimeouts /\ [][NextTimeouts]_vars

-----------------------------------------------------------------------------
(* Properties.                                                             *)

\* C1: every request frame the daemon receives in full gets exactly one
\* reply frame, a response or an error, before handle_connection returns.
\* Stated for the invocations in which no read, write or allocation failed
\* and the engine returned what its contract promises: a return of
\* handle_connection with no reply written in such an invocation refutes
\* the stronger sentence too.
C1_OneReplyPerFrame ==
    (pc = "h_ret" /\ gh.full /\ ~gh.io_fail /\ ~gh.alloc_fail /\ ~gh.breach)
        => gh.replies = 1

\* C2: the reply to a request is fully written (write_full has returned,
\* and returned 0 only after the last byte) before any byte of the next
\* request is read: no write_full is under way outside the sending step,
\* and a success response with return value 0 is one whole reply.  In server
\* mode at most one accepted descriptor is open at a time.
C2_ReplyBeforeNextRead ==
    /\ pc # "h_send" => wtotal = "none"
    /\ ~gh.short_write
    /\ (pc = "h_ret" /\ result = "0" /\ resp.kind = "response") => gh.replies = 1
    /\ pc \in {"h_read_hdr", "h_read_pay"} => gh.replies = 0
    /\ hist.open_fds <= 1

\* a second request is being read on the connection after a whole reply to
\* the first
C2_Witness ==
    /\ mode = "worker" /\ pc = "h_read_pay" /\ rtotal = "some"
    /\ conn.written /\ generation_performed

\* C3: in worker mode handle_connection returns "exit the loop" only when a
\* read or write on the socket failed, never because of what the peer sent.
\* Failed allocations and an engine that broke its contract are set aside.
C3_ExitOnlyOnIoFailure ==
    (mode = "worker" /\ pc = "h_ret" /\ result = "-1")
        => (gh.io_fail \/ gh.alloc_fail \/ gh.breach)

\* C4: once socket_request_shutdown has run, g_shutdown_requested stays
\* nonzero and every later socket_is_shutdown_requested returns nonzero,
\* until socket_reset_shutdown, which only the unit test calls.
C4_FlagMonotone ==
    /\ [](hist.query_ok)
    /\ [][ (g_shutdown_requested # 0 /\ g_shutdown_requested' = 0)
              => TestResetShutdown ]_vars

\* shutdown was requested from two sources and the worker loop saw the flag
C4_Witness ==
    /\ mode = "worker" /\ signals = 1 /\ monitor = "done"
    /\ g_shutdown_requested # 0 /\ pc = "w_done"

\* C5: in worker mode, once the flag is set the main loop eventually exits
\* and the process returns EXIT_SUCCESS, whether or not the peer ever sends
\* or closes.
C5_WorkerExitsAfterShutdown ==
    (mode = "worker" /\ g_shutdown_requested # 0
        /\ pc \in HandlerPcs \cup {"w_loop"})
    ~> (pc = "exited" /\ exit_code = "EXIT_SUCCESS")

\* C6: in server mode, once the flag is set while the loop is at its test or
\* at accept() with no connection waiting, socket_accept_loop eventually
\* returns, unless another client connects first.
C6_AcceptLoopReturnsAfterShutdown ==
    (mode = "server" /\ g_shutdown_requested # 0
        /\ pc \in {"a_loop", "a_accept"} /\ pending = 0)
    ~> (hist.loop_err # "none" \/ pending > 0)

\* C7: a connection whose peer-credential check failed never reaches the
\* handler, has no byte written to it, is closed, and the loop has gone on.
C7_RejectedNeverHandled ==
    conn.auth_err \notin {"none", "SOCKET_OK"}
        => /\ conn.handled = 0 /\ ~conn.written /\ ~conn.open
           /\ pc \in {"a_loop", "a_accept", "a_done", "cleanup", "exited"}

\* a peer with another uid was turned away and the loop waits in accept()
C7_Witness ==
    /\ conn.auth_err = "SOCKET_ERR_AUTH_UID_MISMATCH"
    /\ pc = "a_accept" /\ blocked /\ hist.open_fds = 0

\* C8: socket_auth_connection returns SOCKET_OK exactly when the peer uid
\* the kernel reports equals the server's effective uid; otherwise, and when
\* the credentials cannot be read, it returns an error.
C8_AuthIffEffectiveUid ==
    fnOut.name = "socket_auth_connection"
        => (fnOut.err = "SOCKET_OK"
               <=> (fnIn.fd >= 0 /\ fnIn.cred_ok /\ fnIn.cred_uid = fnIn.euid))

\* C9: with a socket file already at the path, socket_create succeeds
\* (unlink, then bind) when the test connect fails, provided no other system
\* call of it fails; it fails and leaves the file as it was when the test
\* connect succeeds.
C9_StaleRecovery ==
    (fnOut.name = "socket_create" /\ fnIn.fs.xdg = "set"
        /\ fnIn.fs.sock.kind = "socket")
    => IF fnIn.fs.sock.owner = "other"
       THEN /\ fnOut.r.err # "SOCKET_OK" /\ fnOut.r.listen_fd < 0
            /\ fnOut.r.fs.sock = fnIn.fs.sock
       ELSE fnIn.fault = "none"
            => /\ fnOut.r.err = "SOCKET_OK" /\ fnOut.r.listen_fd >= 0
               /\ fnOut.r.fs.sock = SockEntry("self", "0600")

\* a stale entry in a directory of mode 0755 was replaced
C9_Witness ==
    /\ fnOut.name = "socket_create" /\ fnIn.fault = "none"
    /\ fnIn.fs = [xdg |-> "set", dir |-> "0755", sock |-> SockEntry("none", "0600")]
    /\ fnOut.r.err = "SOCKET_OK"
    /\ fnOut.r.fs.dir = "0700"

\* C10: cleanup() unlinks the socket entry only if this process created it
\* through a successful socket_create: never in worker mode, never after a
\* failed socket_create or socket_connect.
C10_UnlinkOnlyOwnSocket ==
    hist.cleanup_unlink # "" => (hist.created /\ mode = "server")

\* socket_create failed against a live instance, the process has exited,
\* and the other instance's entry is still there
C10_Witness ==
    /\ mode = "server" /\ pc = "exited" /\ ~hist.created
    /\ g_socket_fd = -1 /\ hist.cleanup_unlink = ""
    /\ fs.sock = SockEntry("other", "0600")

\* C11: when the connection ends before all 16 header bytes, or all the
\* announced payload bytes, have been read, handle_connection writes no byte
\* and returns "exit loop"; in server mode the accept loop then closes the
\* connection and goes on accepting.
C11_ShortReadSilentExit ==
    /\ [](gh.read_end = "eof"
            => /\ ~gh.wrote /\ gh.replies = 0 /\ ~gh.full
               /\ pc \notin HandlerPcs \ {"h_ret"}
               /\ pc = "h_ret" => result = "-1")
    /\ [][ (mode = "server" /\ gh.read_end = "eof" /\ pc = "h_ret" /\ pc' # pc)
             => (pc' = "a_loop" /\ ~conn'.open /\ hist'.open_fds = 0) ]_vars

\* the peer closed after the header, before the payload; the connection is
\* closed and the loop waits in accept() again
C11_Witness ==
    /\ mode = "server" /\ gh.read_end = "eof" /\ gh.consumed = HEADER_SIZE
    /\ result = "-1" /\ ~conn.open /\ pc = "a_accept" /\ blocked

\* C12: a header with a wrong magic or a payload length above 10 MiB - 16,
\* or a full frame that decode_generate_request refuses, gets one error
\* frame with request_id 0 and the error kind of the failed check, and
\* handle_connection returns "continue"; for the two header-level failures
\* no request buffer was allocated.  The frame is sent best-effort: it is
\* there unless the write failed.
C12_ProtocolErrorReply ==
    (pc = "h_ret" /\ gh.consumed >= HEADER_SIZE /\ gh.read_end = "none"
        /\ ~gh.alloc_fail)
    => LET hdr_bad == \/ frame.magic # PROTOCOL_MAGIC
                      \/ frame.payload_len > MAX_REQUEST_SIZE - 16
           kind == IF frame.magic # PROTOCOL_MAGIC THEN "ERR_INVALID_MAGIC"
                   ELSE IF frame.payload_len > MAX_REQUEST_SIZE - 16
                       THEN "ERR_INTERNAL"
                   ELSE decode_generate_request(frame)
       IN kind # "ERR_NONE"
          => /\ resp.kind = "error" /\ resp.request_id = 0
             /\ resp.error_code = kind
             /\ result = "0"
             /\ gh.replies = (IF gh.io_fail THEN 0 ELSE 1)
             /\ hdr_bad => ~gh.malloced
             /\ ~hdr_bad => gh.malloced /\ gh.full

\* a frame of version 2 was read in full and answered
C12_Witness ==
    /\ pc = "h_ret" /\ frame.version = 2 /\ gh.full /\ gh.malloced
    /\ resp.error_code = "ERR_UNSUPPORTED_VERSION" /\ resp.request_id = 0
    /\ gh.replies = 1 /\ result = "0"

\* a header with the right magic that announces more than 10 MiB - 16
\* payload bytes has been read
OversizedClaim ==
    /\ gh.consumed >= HEADER_SIZE /\ frame.magic = PROTOCOL_MAGIC
    /\ frame.payload_len > MAX_REQUEST_SIZE - 16

\* C13: a framing error (a short read, an oversized payload-length claim in
\* a header) is treated as "connection lost": no error frame is sent and
\* handle_connection returns "exit loop".
C13_FramingErrorIsConnectionLost ==
    (pc = "h_ret" /\ (gh.read_end = "eof" \/ OversizedClaim))
        => (~gh.wrote /\ gh.replies = 0 /\ result = "-1")

\* C13 as the code has it: a short read is "connection lost" (no frame,
\* "exit loop"); an oversized payload-length claim is answered with one
\* error frame of kind INTERNAL, status 500 and request_id 0 after only the
\* 16 header bytes were consumed and nothing was allocated, and
\* handle_connection returns "continue".
C13_OversizeAnsweredShortReadSilent ==
    /\ (pc = "h_ret" /\ gh.read_end = "eof")
          => (~gh.wrote /\ gh.replies = 0 /\ result = "-1")
    /\ (pc = "h_ret" /\ OversizedClaim)
          => /\ resp.kind = "error" /\ resp.error_code = "ERR_INTERNAL"
             /\ resp.status = STATUS_INTERNAL_SERVER_ERROR
             /\ resp.request_id = 0
             /\ gh.consumed = HEADER_SIZE /\ ~gh.malloced
             /\ gh.replies = (IF gh.io_fail THEN 0 ELSE 1)
             /\ result = "0"

\* the worker answered an oversized claim and goes round its loop
C13_Witness ==
    /\ mode = "worker" /\ pc = "h_ret" /\ OversizedClaim
    /\ gh.replies = 1 /\ gh.wrote /\ result = "0"

\* C14: when the generation pipeline fails for a decoded request,
\* handle_connection sends one error frame whose request_id is the
\* request's and whose kind is the mapped engine kind (invalid-parameter ->
\* INVALID_PROMPT, out-of-memory -> OUT_OF_MEMORY, GPU -> GPU_ERROR, anything
\* else -> INTERNAL), and returns "continue".  The frame is sent
\* best-effort: it is there unless the write failed.
C14_PipelineErrorReply ==
    (pc \in {"h_send", "h_ret"} /\ gh.pipe_err \notin {"none", "ERR_NONE"})
    => LET kind == CASE gh.sd_err = "SD_WRAPPER_ERR_INVALID_PARAM"
                           -> "ERR_INVALID_PROMPT"
                      [] gh.sd_err = "SD_WRAPPER_ERR_OUT_OF_MEMORY"
                           -> "ERR_OUT_OF_MEMORY"
                      [] gh.sd_err = "SD_WRAPPER_ERR_GPU_ERROR"
                           -> "ERR_GPU_ERROR"
                      [] OTHER -> "ERR_INTERNAL"
       IN /\ resp.kind = "error" /\ resp.error_code = kind
          /\ resp.request_id = frame.request_id
          /\ pc = "h_ret" => /\ result = "0"
                             /\ gh.replies = (IF gh.io_fail THEN 0 ELSE 1)

\* the engine reported a GPU error for request 12345 and the error frame
\* went out
C14_Witness ==
    /\ pc = "h_ret" /\ gh.sd_err = "SD_WRAPPER_ERR_GPU_ERROR"
    /\ resp.error_code = "ERR_GPU_ERROR" /\ resp.request_id = 12345
    /\ gh.replies = 1 /\ result = "0"

\* C15: every error frame carries status 500 when its kind is
\* OUT_OF_MEMORY, GPU_ERROR, TIMEOUT or INTERNAL and status 400 when its kind
\* is one of the seven request errors; the status depends on the kind alone.
C15_StatusFromKind ==
    /\ \A k \in ErrorCodes \ {"ERR_NONE"} :
          ErrorResponse(req.request_id, k, 0).status =
              IF k \in {"ERR_OUT_OF_MEMORY", "ERR_GPU_ERROR", "ERR_TIMEOUT",
                        "ERR_INTERNAL"} THEN 500 ELSE 400
    /\ (resp.kind = "error") =>
          \/ /\ resp.error_code \in {"ERR_OUT_OF_MEMORY", "ERR_GPU_ERROR",
                                     "ERR_TIMEOUT", "ERR_INTERNAL"}
             /\ resp.status = 500
          \/ /\ resp.error_code \in {"ERR_INVALID_MAGIC",
                                     "ERR_UNSUPPORTED_VERSION",
                                     "ERR_INVALID_MODEL_ID", "ERR_INVALID_PROMPT",
                                     "ERR_INVALID_DIMENSIONS", "ERR_INVALID_STEPS",
                                     "ERR_INVALID_CFG"}
             /\ resp.status = 400

\* an out-of-memory error frame with status 500 was written in full
C15_Witness ==
    /\ pc = "h_ret" /\ resp.kind = "error" /\ gh.replies = 1
    /\ resp.error_code = "ERR_OUT_OF_MEMORY" /\ resp.status = 500

\* C16: decode_generate_request returns the error kind of the first check
\* that fails, taking the checks in the order: input length at least 16;
\* magic; version; message kind; payload length at most 10 MiB - 16 and input
\* length at least 16 + payload length; payload length at least 60;
\* model_id; width and height; steps; cfg_scale; the three prompt pairs.
\* It returns ERR_NONE only if every check passes.
C16_DecodeCheckOrder ==
    (mode = "decode" /\ fnOut # NoFn) =>
        LET d == fnIn
            region == d.payload_len - 60
            dim_ok(x) == x \in { 64 * k : k \in 1..32 }
            cfg_ok == /\ d.cfg_scale.exp # 255
                      /\ \/ d.cfg_scale.exp = 0 /\ d.cfg_scale.mant = 0
                         \/ /\ d.cfg_scale.sign = 0
                            /\ \/ d.cfg_scale.exp < 131
                               \/ d.cfg_scale.exp = 131
                                  /\ d.cfg_scale.mant <= 2097152
            pair_ok(off, ln) == /\ ln \in 1..256
                                /\ off >= 0 /\ off <= region
                                /\ ln <= region - off
            checks ==
                << << d.len >= 16, "ERR_INTERNAL" >>,
                   << d.magic = 1464161861, "ERR_INVALID_MAGIC" >>,
                   << d.version = 1, "ERR_UNSUPPORTED_VERSION" >>,
                   << d.msg_type = 1, "ERR_INTERNAL" >>,
                   << d.payload_len <= 10 * 1024 * 1024 - 16
                      /\ d.len >= 16 + d.payload_len, "ERR_INTERNAL" >>,
                   << d.payload_len >= 60, "ERR_INTERNAL" >>,
                   << d.model_id = 0, "ERR_INVALID_MODEL_ID" >>,
                   << dim_ok(d.width) /\ dim_ok(d.height),
                      "ERR_INVALID_DIMENSIONS" >>,
                   << d.steps \in 1..100, "ERR_INVALID_STEPS" >>,
                   << cfg_ok, "ERR_INVALID_CFG" >>,
                   << /\ pair_ok(d.clip_l_offset, d.clip_l_length)
                      /\ pair_ok(d.clip_g_offset, d.clip_g_length)
                      /\ pair_ok(d.t5_offset, d.t5_length),
                      "ERR_INVALID_PROMPT" >> >>
            failing == { i \in 1..Len(checks) : ~checks[i][1] }
        IN  fnOut.err =
                IF failing = {} THEN "ERR_NONE"
                ELSE checks[CHOOSE i \in failing :
                                \A j \in failing : i <= j][2]

\* a frame with a wrong magic, an unsupported version, misaligned
\* dimensions, zero steps and a NaN cfg_scale was answered with the magic's
\* error kind
C16_Witness ==
    /\ mode = "decode" /\ fnOut # NoFn
    /\ fnIn.len = 16 + 102 /\ fnIn.payload_len = 102
    /\ fnIn.magic # PROTOCOL_MAGIC /\ fnIn.version = 2
    /\ fnIn.width = 0 /\ fnIn.steps = 0 /\ fnIn.cfg_scale.exp = 255
    /\ fnOut.err = "ERR_INVALID_MAGIC"

\* C17: for a request frame valid in every other field and any width and
\* height in 0..4096, decode_generate_request succeeds if and only if both
\* width and height lie in 64..2048 and are divisible by 64; otherwise it
\* returns ERR_INVALID_DIMENSIONS.
C17_DimensionsAccepted ==
    ( /\ mode = "decode" /\ fnOut # NoFn
      /\ fnIn = [ValidFrame EXCEPT !.width = fnIn.width,
                                   !.height = fnIn.height]
      /\ fnIn.width \in 0..4096 /\ fnIn.height \in 0..4096 ) =>
        LET ok(x) == x >= 64 /\ x <= 2048 /\ x % 64 = 0
        IN  fnOut.err = IF ok(fnIn.width) /\ ok(fnIn.height)
                        THEN "ERR_NONE" ELSE "ERR_INVALID_DIMENSIONS"

\* a width inside the range and not a multiple of 64 was rejected
C17_Witness ==
    /\ mode = "decode" /\ fnOut # NoFn
    /\ fnIn = [ValidFrame EXCEPT !.width = 1000, !.height = 2048]
    /\ fnOut.err = "ERR_INVALID_DIMENSIONS"

C19_PrefixIsFramingError ==
    ( /\ mode = "decode" /\ fnOut # NoFn
      /\ fnIn.len < 16 + fnIn.payload_len
      /\ decode_generate_request(
             [fnIn EXCEPT !.len = 16 + fnIn.payload_len]) = "ERR_NONE" ) =>
        /\ fnOut.err = "ERR_INTERNAL"
        /\ fnOut.extent <= fnIn.len

\* the valid frame less its last byte was refused after its header was read
C19_Witness ==
    /\ mode = "decode" /\ fnOut # NoFn
    /\ fnIn = [ValidFrame EXCEPT !.len = ValidFrame.len - 1]
    /\ fnOut.err = "ERR_INTERNAL" /\ fnOut.extent = 16

\* C20: a request that passes all earlier checks and whose cfg_scale holds
\* a NaN bit pattern, +infinity or -infinity is rejected with
\* ERR_INVALID_CFG; a finite cfg_scale is accepted if and only if it lies
\* in [0.0, 20.0].
C20_CfgScaleRange ==
    ( /\ mode = "decode" /\ fnOut # NoFn
      /\ fnIn = [ValidFrame EXCEPT !.cfg_scale = fnIn.cfg_scale] ) =>
        LET c == fnIn.cfg_scale
            finite == c.exp < 255
            zero == c.exp = 0 /\ c.mant = 0
            \* 20.0 is 1.25 * 2^4: exponent 127 + 4, mantissa 2^21
            at_most_20 == c.exp < 131 \/ (c.exp = 131 /\ c.mant <= 2097152)
            in_range == zero \/ (c.sign = 0 /\ at_most_20)
        IN  fnOut.err = IF finite /\ in_range
                        THEN "ERR_NONE" ELSE "ERR_INVALID_CFG"

\* a negative signalling NaN was rejected
C20_Witness ==
    /\ mode = "decode" /\ fnOut # NoFn
    /\ fnIn = [ValidFrame EXCEPT !.cfg_scale = F32(1, 255, 1)]
    /\ fnOut.err = "ERR_INVALID_CFG"

\* C21: encode_generate_response called with non-NULL arguments, valid
\* dimensions and channels, and image_data_len different from
\* image_width * image_height * channels returns ERR_INVALID_DIMENSIONS for
\* every output buffer size, including sizes too small to hold the frame.
C21_MismatchedLengthRefused ==
    ( /\ mode = "encode" /\ fnOut # NoFn
      /\ fnIn.fn = "encode_generate_response"
      /\ fnIn.r.has_data
      /\ fnIn.r.image_width \in { 64 * k : k \in 1..32 }
      /\ fnIn.r.image_height \in { 64 * k : k \in 1..32 }
      /\ fnIn.r.channels \in {3, 4}
      /\ fnIn.r.image_data_len #
            fnIn.r.image_width * fnIn.r.image_height * fnIn.r.channels ) =>
        fnOut.err = "ERR_INVALID_DIMENSIONS"

\* a 512 x 512 x 3 response one byte short was refused for its dimensions
\* although the buffer was empty
C21_Witness ==
    /\ mode = "encode" /\ fnOut # NoFn
    /\ fnIn.fn = "encode_generate_response"
    /\ fnIn.r.image_width = 512 /\ fnIn.r.image_height = 512
    /\ fnIn.r.channels = 3 /\ fnIn.r.image_data_len = 512 * 512 * 3 - 1
    /\ fnIn.buf_size = 0
    /\ fnOut.err = "ERR_INVALID_DIMENSIONS"

\* C22: every frame an encoder emits has a header payload-length field of
\* at most 10 MiB - 16 and a total length of at most 10 MiB, and the
\* payload-length field equals the number of bytes written after the 16-byte
\* header.
C22_EmittedFrameWithinLimit ==
    (mode = "encode" /\ fnOut # NoFn /\ fnOut.err = "ERR_NONE") =>
        LET payload_field == read_u32_be(fnOut.wire.head, 8)
            written == Len(fnOut.wire.head) + fnOut.wire.tail_len
        IN  /\ payload_field <= 10 * 1024 * 1024 - 16
            /\ written <= 10 * 1024 * 1024
            /\ fnOut.len = written
            /\ payload_field = written - 16

\* a 1408 x 1856 x 4 response, 32768 bytes below 10 MiB, was emitted with 48
\* bytes in front of its pixels
C22_Witness ==
    /\ mode = "encode" /\ fnOut # NoFn /\ fnOut.err = "ERR_NONE"
    /\ fnIn.fn = "encode_generate_response"
    /\ fnIn.r.image_width = 1408 /\ fnIn.r.image_height = 1856
    /\ fnIn.r.channels = 4
    /\ fnOut.len = MAX_MESSAGE_SIZE - 32768 + 48

\* C23: for every valid response R (dimensions in 64..2048 and multiples of
\* 64, channels 3 or 4, image length width * height * channels, frame
\* within 10 MiB) and a large enough buffer, encode_generate_response
\* succeeds, and reading its output by the big-endian layout (header with
\* kind response and payload length 32 + image length; then request_id,
\* status, generation_time_ms, width, height, channels, image length, pixel
\* bytes) recovers exactly R.
C23_ResponseRoundTrip ==
    ( /\ mode = "encode" /\ fnOut # NoFn
      /\ fnIn.fn = "encode_generate_response"
      /\ fnIn.r.has_data
      /\ fnIn.r.image_width \in { 64 * k : k \in 1..32 }
      /\ fnIn.r.image_height \in { 64 * k : k \in 1..32 }
      /\ fnIn.r.channels \in {3, 4}
      /\ fnIn.r.image_data_len =
            fnIn.r.image_width * fnIn.r.image_height * fnIn.r.channels
      /\ 48 + fnIn.r.image_data_len <= 10 * 1024 * 1024
      /\ fnIn.buf_size >= 48 + fnIn.r.image_data_len ) =>
        LET buf == fnOut.wire.head
            R == fnIn.r
        IN  /\ fnOut.err = "ERR_NONE"
            /\ Len(buf) = 48
            /\ read_u32_be(buf, 0) = 1464161861
            /\ read_u16_be(buf, 4) = 1
            /\ read_u16_be(buf, 6) = 2
            /\ read_u32_be(buf, 8) = 32 + R.image_data_len
            /\ read_u64_be(buf, 16) = [hi |-> 0, lo |-> R.request_id]
            /\ read_u32_be(buf, 24) = R.status
            /\ read_u32_be(buf, 28) = R.generation_time_ms
            /\ read_u32_be(buf, 32) = R.image_width
            /\ read_u32_be(buf, 36) = R.image_height
            /\ read_u32_be(buf, 40) = R.channels
            /\ read_u32_be(buf, 44) = R.image_data_len
            /\ fnOut.wire.tail_len = R.image_data_len
            /\ fnOut.wire.tail = R.image_data

\* the response of the encoder's unit test was encoded into 48 + 786432
\* bytes
C23_Witness ==
    /\ mode = "encode" /\ fnOut # NoFn /\ fnOut.err = "ERR_NONE"
    /\ fnIn.r = ImageResponse(12345, STATUS_OK, 10000, 512, 512, 3,
                              512 * 512 * 3)
    /\ fnOut.len = 16 + 16 + 16 + 512 * 512 * 3

\* C24: every response frame written to a connection echoes the request_id
\* of the request it answers, has status 200, has width and height equal to
\* that request's width and height, has channels 3 or 4, and has an image
\* byte length equal to width * height * channels, whatever image the
\* engine returned.
C24_ResponseMatchesRequest ==
    (pc \in HandlerPcs /\ resp.kind = "response") =>
        /\ resp.request_id = req.request_id
        /\ resp.status = 200
        /\ resp.image_width = req.width /\ resp.image_height = req.height
        /\ resp.channels \in {3, 4}
        /\ resp.image_data_len =
              resp.image_width * resp.image_height * resp.channels

\* a four-channel response to request 12345 was written in full
C24_Witness ==
    /\ pc = "h_ret" /\ resp.kind = "response" /\ gh.full
    /\ resp.request_id = 12345 /\ resp.channels = 4
    /\ resp.image_data_len = 512 * 512 * 4

\* C25: when socket_create returns SOCKET_OK, the directory exists with
\* mode exactly 0700 (tightened if it existed with other modes), the socket
\* file exists with mode 0600, the returned descriptor is bound to it and
\* listening, and the path is recorded for later cleanup.
C25_CreatedSocketIsPrivate ==
    (mode = "create" /\ fnOut # NoFn /\ fnOut.r.err = "SOCKET_OK") =>
        /\ fnOut.r.fs.dir = "0700"
        /\ fnOut.r.fs.sock = SockEntry("self", "0600")
        /\ fnOut.r.listen_fd >= 0
        /\ fnOut.r.path = "canonical"

\* C26: socket_set_timeouts leaves the corresponding existing socket
\* timeout unchanged when an argument is zero, and rejects a negative
\* timeout argument with an error return.
C26_ZeroKeepsNegativeRejected ==
    (mode = "timeouts" /\ fnOut # NoFn) =>
        /\ fnIn.read_timeout_s = 0 => fnOut.r.opt.rcv = fnIn.opt.rcv
        /\ fnIn.write_timeout_s = 0 => fnOut.r.opt.snd = fnIn.opt.snd
        /\ (fnIn.read_timeout_s < 0 \/ fnIn.write_timeout_s < 0)
              => fnOut.r.err # "SOCKET_OK"

\* C27: a shutdown request that arrives while a request is being processed,
\* the engine's generate call included, does not interrupt that request:
\* handle_connection goes on to its return, the generation runs to
\* completion and the reply is written to the peer before the loop tests the
\* flag.  Stated for the invocations in which no read, write or allocation
\* failed and the engine returned what its contract promises.
C27_ShutdownDoesNotInterrupt ==
    ( /\ pc = "h_ret" /\ gh.shut_pc # "none" /\ gh.full
      /\ ~gh.io_fail /\ ~gh.alloc_fail /\ ~gh.breach ) =>
        /\ gh.replies = 1
        /\ gh.shut_pc = "h_generate" => gh.sd_err # "none"

-----------------------------------------------------------------------------
(* process_generate_request called again and again in one process, with    *)
(* the engine's calls written down.                                         *)

\* err: what the call returned ("none" while it runs); image: what became
\* of the buffer sd_wrapper_generate handed back in this call ("none": it
\* handed back no buffer; "freed": sd_wrapper_free_image released it;
\* "handed": it is resp->image_data; "held": none of these);
\* last_engine: the engine call that returned last; before_generate: the
\* call that came just before the sd_wrapper_generate call made last;
\* completed: some sd_wrapper_generate call has returned the image it was
\* asked for; completed_before: one had when the generate call made last
\* was entered.
NoEngineLog == [name |-> "process_generate_request", err |-> "none",
                last_engine |-> "none", before_generate |-> "none",
                generate_called |-> FALSE, completed |-> FALSE,
                completed_before |-> FALSE, image |-> "none"]

\* << clip_l_offset, clip_l_length >> of the requests a caller may pass:
\* slices inside the 42 bytes of prompt data, empty, too long, at and past
\* the end of the data, and, with -1 and -2147483647 - 1 for the words
\* 0xFFFFFFFF and 0x80000000, pairs whose 32-bit sum wraps
PipelineSlices ==
    { << 0, 14 >>, << 28, 14 >>, << 0, 0 >>, << 0, 257 >>, << 0, -1 >>,
      << 42, 14 >>, << 28, 15 >>, << -1, 1 >>, << -1, 2 >>,
      << -2147483647 - 1, -2147483647 - 1 >> }

\* requests a caller may pass: the header fields of a validated request
\* with any of these slices
PipelineRequests ==
    { [RequestOf(ValidFrame) EXCEPT !.request_id = i, !.width = w,
                                    !.clip_l_offset = sl[1],
                                    !.clip_l_length = sl[2]] :
        i \in {1, 2}, w \in {512, 2048}, sl \in PipelineSlices }

InitPipeline ==
    /\ mode = "pipeline" /\ fs \in { f \in WorkerFs : f.sock = Absent } /\ Fresh
    /\ fnIn = [name |-> "process_generate_request", resp |-> NoResp]
    /\ fnOut = NoEngineLog

\* process_generate_request is entered and runs up to sd_wrapper_generate.
\* The caller passes the response structure it has, fnIn.resp: an empty
\* one or the one an earlier call filled.
CallProcess ==
    /\ mode = "pipeline" /\ pc = "start"
    /\ \E r \in PipelineRequests, reset_ok \in BOOLEAN :
        LET b == BeginGenerate(r, generation_performed, reset_ok)
            after_reset == IF b.reset = "none" THEN fnOut.last_engine
                           ELSE IF b.reset = "ok" THEN "reset_ok"
                           ELSE "reset_failed"
        IN
        /\ req' = r
        /\ fnIn' = [fnIn EXCEPT !.resp = resp]
        /\ IF b.err # "ERR_NONE"
           THEN /\ fnOut' = [fnOut EXCEPT !.err = b.err, !.image = "none",
                                          !.last_engine = after_reset]
                /\ UNCHANGED pc
           ELSE /\ fnOut' = [fnOut EXCEPT !.err = "none", !.image = "none",
                                          !.last_engine = after_reset,
                                          !.before_generate = after_reset,
                                          !.generate_called = TRUE,
                                          !.completed_before = fnOut.completed]
                /\ pc' = "h_generate"
    /\ UNCHANGED << mode, g_shutdown_requested, generation_performed, exit_code,
                    pending, conn, rx, signals, rtotal, wtotal, frame, resp,
                    result, gh, hist, sockV, thrV, sysV >>

\* sd_wrapper_generate returns and process_generate_request finishes.  It
\* stores through resp what FinishGenerate built, and nothing when that is
\* the empty structure.
ReturnProcess ==
    /\ mode = "pipeline" /\ pc = "h_generate"
    /\ \E out \in EngineOutcomes(req) :
        LET g == FinishGenerate(req, out) IN
        /\ generation_performed' = (generation_performed \/ g.performed)
        /\ fnOut' = [fnOut EXCEPT !.err = g.err,
                                  !.last_engine = "generate",
                                  !.completed = @ \/ Conforming(req, out),
                                  !.image =
                                      IF ~out.image.has_data THEN "none"
                                      ELSE IF g.freed THEN "freed"
                                      ELSE IF g.resp.has_data THEN "handed"
                                      ELSE "held"]
        /\ resp' = IF g.resp.kind = "none" THEN resp ELSE g.resp
    /\ pc' = "start"
    /\ UNCHANGED << mode, g_shutdown_requested, exit_code,
                    pending, conn, rx, signals, rtotal, wtotal, frame, req,
                    result, gh, hist, fnIn, sockV, thrV, sysV >>

NextPipeline == CallProcess \/ ReturnProcess

SpecPipeline == InitPipeline /\ [][NextPipeline]_vars

C29_FlagConsultedAfterEINTR ==
    [][ (AcceptEINTR \/ ReadReturn("eintr") \/ WriteReturn("eintr"))
            => pc' \in {"a_loop", "w_loop"} ]_vars

\* C30: the stdin monitor thread sets the shutdown flag when its blocking
\* read of standard input returns end-of-file, an error or data, and a step
\* of that thread or of the signal handler leaves every other datum the
\* main thread uses (its position, the generation flag, the socket
\* descriptors, path and files, the connection, the request and response
\* buffers, the results) as it was.
C30_OnlyFlagOutsideMain ==
    [][ /\ (monitor = "reading" /\ monitor' # monitor)
            => /\ stdin \in {"eof", "error", "data"}
               /\ monitor' = "done" /\ g_shutdown_requested' = 1
        /\ (signals' # signals \/ (monitor = "reading" /\ monitor' # monitor))
            => /\ g_shutdown_requested' = 1
               /\ UNCHANGED << pc, generation_performed, exit_code, conn,
                               result, sockV, hV >> ]_vars

\* the monitor saw data on standard input and set the flag, with no signal
\* delivered, while the main thread was inside the engine's generate call
C30_Witness ==
    /\ mode = "worker" /\ monitor = "done" /\ stdin = "data" /\ signals = 0
    /\ g_shutdown_requested = 1
    /\ pc = "h_generate" /\ gh.shut_pc = "h_generate" /\ g_socket_fd >= 0

\* C31: in server mode each authenticated connection gets exactly one
\* handler invocation, the accepted descriptor is open while the handler
\* runs and closed once after it returns, whatever it returned, at most one
\* accepted descriptor is open at any time, and the accept loop stops only
\* on a shutdown request or a failed accept(), never on a handler's return.
C31_OneHandlerOneClose ==
    mode = "server" =>
        /\ hist.open_fds \in {0, 1}
        /\ hist.open_fds = (IF conn.open THEN 1 ELSE 0)
        /\ conn.auth_err = "SOCKET_OK" =>
              /\ conn.handled = 1
              /\ conn.open <=> pc \in HandlerPcs
        /\ pc \in HandlerPcs => conn.auth_err = "SOCKET_OK"
        /\ pc = "a_done" =>
              \/ hist.loop_err = "SOCKET_OK" /\ g_shutdown_requested # 0
              \/ hist.loop_err = "SOCKET_ERR_ACCEPT_FAILED"

\* the handler returned -1 for an authenticated connection, the descriptor
\* was closed and the loop waits in accept() again
C31_Witness ==
    /\ mode = "server" /\ conn.auth_err = "SOCKET_OK" /\ conn.handled = 1
    /\ result = "-1" /\ ~conn.open /\ hist.open_fds = 0
    /\ pc = "a_accept" /\ blocked /\ g_shutdown_requested = 0

\* C32: whenever process_generate_request returns an error, the caller's
\* response structure is as it was when the call was made, and no image
\* buffer of the engine is left allocated: the engine handed none back, or
\* it was freed before the return.
C32_ErrorLeavesResponseAlone ==
    (mode = "pipeline" /\ fnOut.err \notin {"none", "ERR_NONE"}) =>
        /\ resp = fnIn.resp
        /\ fnOut.image \in {"none", "freed"}

\* a call that followed a successful one returned ERR_INTERNAL after the
\* engine handed back an image that was refused and freed; the response
\* structure still holds the earlier call's response
C32_Witness ==
    /\ mode = "pipeline" /\ pc = "start" /\ fnOut.err = "ERR_INTERNAL"
    /\ fnOut.image = "freed" /\ resp.kind = "response"
    /\ resp.request_id # req.request_id

\* the CLIP-L slice of r is empty, longer than SD35_MAX_PROMPT_LENGTH or
\* not inside the prompt_data_len bytes of prompt data, with offset and
\* length read as the unsigned numbers they are
SliceRefusable(r) ==
    \/ r.clip_l_length = 0
    \/ UGt(r.clip_l_length, SD35_MAX_PROMPT_LENGTH)
    \/ UGt(r.clip_l_offset, r.prompt_data_len)
    \/ UGt(r.clip_l_length, r.prompt_data_len - r.clip_l_offset)

\* C33: process_generate_request returns INVALID_PROMPT, without copying
\* prompt bytes and without calling the engine, for every request whose
\* CLIP-L length is 0 or greater than 256 or whose CLIP-L offset + length
\* exceeds prompt_data_len, pairs whose 32-bit sum wraps included.
C33_BadSliceRefused ==
    (mode = "pipeline" /\ req # NoReq /\ SliceRefusable(req)) =>
        /\ pc = "start"
        /\ fnOut.err = "ERR_INVALID_PROMPT"
        /\ convert_request_params(req, SD35_MAX_PROMPT_LENGTH + 1)
               = "ERR_INVALID_PROMPT"

-----------------------------------------------------------------------------
(* One process calling socket_create and socket_cleanup, as the tests of   *)
(* test_socket.c do, next to other instances of the daemon.                *)

\* what the socket_cleanup calls made so far did.  n: the calls made since
\* socket_create returned SOCKET_OK; r: what the last call returned;
\* path_before: g_socket_path when it was made; changed: it removed a
\* filesystem entry; removed: the entry it removed; fault: an unlink() of
\* one of the n calls failed.
NoCleanupLog == [name |-> "socket_cleanup", calls |-> 0, n |-> 0, r |-> "none",
                 path_before |-> "", changed |-> FALSE, removed |-> Absent,
                 fault |-> FALSE]

InitLifecycle ==
    /\ mode = "lifecycle" /\ fs \in FsStates /\ Fresh
    /\ fnIn = NoFn /\ fnOut = NoCleanupLog

\* socket_create(&fd), at most once
LifecycleCreate ==
    /\ mode = "lifecycle" /\ fnIn = NoFn
    /\ \E fault \in Faults :
        LET r == socket_create(fs, fault) IN
        /\ fs' = r.fs /\ g_socket_fd' = r.listen_fd /\ g_socket_path' = r.path
        /\ fnIn' = [name |-> "socket_create", r |-> r.err]
        /\ fnOut' = [fnOut EXCEPT !.n = 0, !.fault = FALSE]
    /\ UNCHANGED << mode, pc, g_shutdown_requested, generation_performed,
                    exit_code, pending, conn, rx, signals, result, gh, hist,
                    g_socket_owned, thrV, hV, sysV >>

\* socket_cleanup()
LifecycleCleanup ==
    /\ mode = "lifecycle" /\ fnOut.calls < MaxCleanups
    /\ \E unlink_fails \in BOOLEAN :
        LET c == socket_cleanup(g_socket_path, fs, unlink_fails) IN
        /\ fs' = c.fs /\ g_socket_path' = c.path
        /\ fnOut' = [fnOut EXCEPT
                        !.calls = @ + 1,
                        !.n = IF fnIn # NoFn /\ fnIn.r = "SOCKET_OK"
                              THEN @ + 1 ELSE @,
                        !.r = c.err,
                        !.path_before = g_socket_path,
                        !.changed = (c.fs # fs),
                        !.removed = IF c.fs # fs THEN fs.sock ELSE Absent,
                        !.fault = @ \/ c.err = "SOCKET_ERR_UNLINK_FAILED"]
    /\ UNCHANGED << mode, pc, g_shutdown_requested, generation_performed,
                    exit_code, pending, conn, rx, signals, result, gh, hist,
                    g_socket_fd, g_socket_owned, fnIn, thrV, hV, sysV >>

\* another instance of the daemon starts and binds the canonical path
OtherInstanceBinds ==
    /\ mode = "lifecycle"
    /\ fs.xdg = "set" /\ fs.dir \in {"0700", "0755"} /\ fs.sock = Absent
    /\ fs' = [fs EXCEPT !.sock = SockEntry("other", "0600")]
    /\ UNCHANGED << mode, pc, g_shutdown_requested, generation_performed,
                    exit_code, pending, conn, rx, signals, result, gh, hist,
                    g_socket_fd, g_socket_owned, g_socket_path,
                    fnV, thrV, hV, sysV >>

NextLifecycle == LifecycleCreate \/ LifecycleCleanup \/ OtherInstanceBinds

SpecLifecycle == InitLifecycle /\ [][NextLifecycle]_vars

\* C34: after a successful socket_create, calling socket_cleanup one or
\* more times always returns SOCKET_OK (no unlink() failing); after the
\* first call the socket file is gone and the recorded path is cleared, and
\* later calls leave the filesystem unchanged.
C34_CleanupIdempotent ==
    (mode = "lifecycle" /\ fnOut.n >= 1 /\ ~fnOut.fault) =>
        /\ fnOut.r = "SOCKET_OK"
        /\ fnOut.n = 1 => (fnOut.changed /\ fnOut.removed.owner = "self")
        /\ g_socket_path = ""
        /\ fnOut.n >= 2 => ~fnOut.changed

\* C40: socket_cleanup unlinks only a path recorded by a successful
\* socket_create of the same process: called with no path recorded (the
\* socket never created by this process, or already cleaned up) it removes
\* no filesystem entry, and so never the socket file of another live
\* instance.
C40_CleanupOnlyRecordedPath ==
    (mode = "lifecycle" /\ fnOut.calls >= 1 /\ fnOut.path_before = "") =>
        /\ ~fnOut.changed
        /\ fnOut.removed.owner # "other"

\* C35: every width and height the decoder accepts (64..2048, multiples of
\* 64), with 3 or 4 channels and the matching data length, is an image whose
\* response frame encode_generate_response accepts when the buffer is large
\* enough, so that a decoded request with a conforming image gets a
\* response frame.
C35_AcceptedSizesEncodable ==
    ( /\ mode = "encode" /\ fnOut # NoFn
      /\ fnIn.fn = "encode_generate_response"
      /\ fnIn.r.has_data
      /\ ~BadDimension(fnIn.r.image_width)
      /\ ~BadDimension(fnIn.r.image_height)
      /\ fnIn.r.channels \in {3, 4}
      /\ fnIn.r.image_data_len =
            fnIn.r.image_width * fnIn.r.image_height * fnIn.r.channels
      /\ fnIn.buf_size >= 48 + fnIn.r.image_data_len ) =>
        /\ fnOut.err = "ERR_NONE"
        /\ fnOut.len = 48 + fnIn.r.image_data_len

\* C36: whenever handle_connection returns 0 ("continue"), it has consumed
\* exactly 16 + payload_len bytes of the stream in that call, payload_len
\* being the length the frame's header states, so that the next call
\* starts reading at a frame boundary.
C36_ContinueAtFrameBoundary ==
    (pc = "h_ret" /\ result = "0") =>
        gh.consumed = HEADER_SIZE + frame.payload_len

\* C39: whenever socket_create returns an error, *listen_fd is -1, no
\* descriptor the call opened is still open, and no socket file bound by
\* the call is left on the filesystem.
C39_ErrorLeavesNothing ==
    (mode = "create" /\ fnOut.name = "socket_create"
        /\ fnOut.r.err # "SOCKET_OK") =>
        /\ fnOut.r.listen_fd = -1
        /\ fnOut.r.open_fds = 0
        /\ ~(fnOut.r.fs.sock.kind = "socket" /\ fnOut.r.fs.sock.owner = "self")

\* socket_create removed a stale socket file, bound its own, and failed at
\* listen()
C39_Witness ==
    /\ mode = "create" /\ fnOut.name = "socket_create"
    /\ fnOut.r.err = "SOCKET_ERR_LISTEN_FAILED"
    /\ fnIn.fs.sock.kind = "socket" /\ fnIn.fs.sock.owner = "none"

-----------------------------------------------------------------------------
(* The heap of handle_connection (main.c:375-509): the request buffer, the *)
(* engine's image buffer and the prompt pointer the decoder borrows from   *)
(* the request buffer.  fnIn is the frame on the stream and the value of   *)
(* generation_performed; fnOut is the heap as the call goes on.            *)

\* at: the step the call is at; ret: its return value; buffer and image:
\* "none" before the allocation, "live", "freed"; the frees count the
\* calls of free() on each; prompt: "none", "borrowed" while it points into
\* the live request buffer, "dangling" once that block was reallocated or
\* freed; stale_use: the prompt was read while not "borrowed"; resp: the
\* response structure process_generate_request filled
NewHeap == [name |-> "handle_connection", at |-> "read_hdr", ret |-> "none",
            buffer |-> "none", buffer_frees |-> 0,
            image |-> "none", image_frees |-> 0,
            prompt |-> "none", stale_use |-> FALSE, resp |-> NoResp]

\* free(buffer)
FreeBuffer(h) ==
    [h EXCEPT !.buffer = "freed", !.buffer_frees = @ + 1,
              !.prompt = IF @ = "borrowed" THEN "dangling" ELSE @]

\* free_generate_response(&resp): frees the image resp.image_data points
\* to and clears the pointer; nothing when the pointer is NULL
free_generate_response(h) ==
    IF h.image = "live"
    THEN [h EXCEPT !.image = "freed", !.image_frees = @ + 1]
    ELSE h

\* return r
ReturnWith(h, r) == [h EXCEPT !.at = "ret", !.ret = r]

InitMemory ==
    /\ mode = "memory" /\ fs \in { f \in WorkerFs : f.sock = Absent } /\ Fresh
    /\ fnIn \in [ name : {"handle_connection"}, frame : Frames,
                  performed : BOOLEAN ]
    /\ fnOut = NewHeap

memV == << mode, pc, g_shutdown_requested, generation_performed, exit_code,
           pending, conn, rx, signals, result, gh, hist, fnIn,
           sockV, thrV, hV, sysV >>

\* step 1: read_full(header, 16)
MemReadHeader ==
    /\ mode = "memory" /\ fnOut.at = "read_hdr"
    /\ \E read_ok \in BOOLEAN :
        fnOut' = IF read_ok THEN [fnOut EXCEPT !.at = "validate"]
                 ELSE ReturnWith(fnOut, "-1")
    /\ UNCHANGED memV

\* steps 2-4: magic, payload length, malloc(16 + payload_len)
MemValidate ==
    /\ mode = "memory" /\ fnOut.at = "validate"
    /\ \E malloc_ok \in BOOLEAN :
        fnOut' =
            IF fnIn.frame.magic # PROTOCOL_MAGIC THEN ReturnWith(fnOut, "0")
            ELSE IF fnIn.frame.payload_len > MAX_REQUEST_SIZE - HEADER_SIZE
                THEN ReturnWith(fnOut, "0")
            ELSE IF ~malloc_ok THEN ReturnWith(fnOut, "-1")
            ELSE [fnOut EXCEPT !.buffer = "live",
                               !.at = IF fnIn.frame.payload_len > 0
                                      THEN "read_pay" ELSE "decode"]
    /\ UNCHANGED memV

\* variant: step 5 without the free(buffer) before its return
MemReadPayload_without_free ==
    /\ mode = "memory" /\ fnOut.at = "read_pay"
    /\ \E read_ok \in BOOLEAN :
        fnOut' = IF read_ok THEN [fnOut EXCEPT !.at = "decode"]
                 ELSE ReturnWith(fnOut, "-1")
    /\ UNCHANGED memV

\* step 5: read_full(buffer + 16, payload_len)
MemReadPayload ==
    /\ mode = "memory" /\ fnOut.at = "read_pay"
    /\ \E read_ok \in BOOLEAN :
        fnOut' = IF read_ok THEN [fnOut EXCEPT !.at = "decode"]
                 ELSE ReturnWith(FreeBuffer(fnOut), "-1")
    /\ UNCHANGED memV

\* decode_generate_request(buffer, ..., &req): req.prompt_data points into
\* buffer from here on
MemDecode ==
    /\ mode = "memory" /\ fnOut.at = "decode"
    /\ fnOut' =
        IF decode_generate_request(fnIn.frame) # "ERR_NONE"
        THEN ReturnWith(FreeBuffer(fnOut), "0")
        ELSE [fnOut EXCEPT !.prompt = "borrowed", !.at = "process"]
    /\ UNCHANGED memV

\* process_generate_request(g_sd_ctx, &req, &resp): convert_request_params
\* reads the prompt through req.prompt_data, the engine hands back an
\* image buffer or none, and the checks after it free the image they
\* refuse; on success resp.image_data owns the image
MemProcess ==
    /\ mode = "memory" /\ fnOut.at = "process"
    /\ \E reset_ok \in BOOLEAN, out \in EngineOutcomes(RequestOf(fnIn.frame)) :
        LET r == RequestOf(fnIn.frame)
            b == BeginGenerate(r, fnIn.performed, reset_ok)
            g == FinishGenerate(r, out)
            h0 == [fnOut EXCEPT !.stale_use =
                       @ \/ fnOut.prompt # "borrowed" \/ fnOut.buffer # "live"]
            h1 == IF ~out.image.has_data THEN h0
                  ELSE IF g.freed
                      THEN [h0 EXCEPT !.image = "freed", !.image_frees = @ + 1]
                  ELSE [h0 EXCEPT !.image = "live"]
        IN
        fnOut' = IF b.err # "ERR_NONE" THEN ReturnWith(FreeBuffer(h0), "0")
                 ELSE IF g.err # "ERR_NONE" THEN ReturnWith(FreeBuffer(h1), "0")
                 ELSE [h1 EXCEPT !.at = "realloc", !.resp = g.resp]
    /\ UNCHANGED memV

\* realloc(buffer, 48 + resp.image_data_len): on NULL the old block is
\* still the caller's; otherwise the old block is gone and req.prompt_data
\* points at what it was
MemRealloc ==
    /\ mode = "memory" /\ fnOut.at = "realloc"
    /\ \E realloc_ok \in BOOLEAN :
        fnOut' =
            IF ~realloc_ok
            THEN ReturnWith(FreeBuffer(free_generate_response(fnOut)), "-1")
            ELSE [fnOut EXCEPT !.prompt = "dangling", !.at = "encode"]
    /\ UNCHANGED memV

\* encode_generate_response into the new buffer, free_generate_response,
\* and the return on an encoding error
MemEncode ==
    /\ mode = "memory" /\ fnOut.at = "encode"
    /\ LET response_buf_size == 16 + 16 + 16 + fnOut.resp.image_data_len
           enc == encode_generate_response(fnOut.resp, response_buf_size)
           h1 == free_generate_response(fnOut)
       IN
       fnOut' = IF enc.err # "ERR_NONE" THEN ReturnWith(FreeBuffer(h1), "-1")
                ELSE [h1 EXCEPT !.at = "write"]
    /\ UNCHANGED memV

\* write_full(client_fd, buffer, response_len) and both returns after it
MemWrite ==
    /\ mode = "memory" /\ fnOut.at = "write"
    /\ \E write_ok \in BOOLEAN :
        fnOut' = ReturnWith(FreeBuffer(fnOut), IF write_ok THEN "0" ELSE "-1")
    /\ UNCHANGED memV

NextMemory ==
    \/ MemReadHeader \/ MemValidate \/ MemReadPayload \/ MemDecode
    \/ MemProcess \/ MemRealloc \/ MemEncode \/ MemWrite

SpecMemory == InitMemory /\ [][NextMemory]_vars

\* C38: on every path through handle_connection the request buffer and the
\* engine's image buffer are each released exactly once: neither is freed
\* twice, neither is still allocated when the call returns; and the
\* borrowed prompt pointer of the decoded request is never read after the
\* request buffer was reallocated or freed.
C38_ReleasedExactlyOnce ==
    mode = "memory" =>
        /\ fnOut.buffer_frees = (IF fnOut.buffer = "freed" THEN 1 ELSE 0)
        /\ fnOut.image_frees = (IF fnOut.image = "freed" THEN 1 ELSE 0)
        /\ fnOut.at = "ret" => (fnOut.buffer # "live" /\ fnOut.image # "live")
        /\ ~fnOut.stale_use

\* a request was answered with its image: both buffers were allocated and
\* are released, and the prompt pointer was left dangling by the realloc
C38_Witness ==
    /\ mode = "memory" /\ fnOut.at = "ret" /\ fnOut.ret = "0"
    /\ fnOut.buffer = "freed" /\ fnOut.image = "freed"
    /\ fnOut.prompt = "dangling"

-----------------------------------------------------------------------------
(* Two daemon processes in socket_create on the same canonical path, one   *)
(* system call at a time (socket.c:229-305, 310-390).  fnOut.file is what  *)
(* the path names: "absent", "stale" (a socket file no process has open),  *)
(* or the process whose bind() made it.  The directory exists with mode    *)
(* 0700 and no system call fails for a reason outside the two processes.   *)

Procs == {"p1", "p2"}

Other(p) == IF p = "p1" THEN "p2" ELSE "p1"

\* at: the call the process makes next; round: 1 before the first bind, 2
\* in the retry after EADDRINUSE; open: its socket descriptor is open;
\* listening: listen() was called on it; ret: what socket_create returned
NewProc == [at |-> "stat", round |-> 1, open |-> FALSE, listening |-> FALSE,
            ret |-> "none"]

InitRace ==
    /\ mode = "race" /\ fs \in { f \in WorkerFs : f.sock = Absent } /\ Fresh
    /\ fnIn = [name |-> "socket_create"]
    /\ fnOut \in { [name |-> "socket_create", file |-> f,
                    proc |-> [p \in Procs |-> NewProc],
                    unlinked_bound |-> FALSE] : f \in {"absent", "stale"} }

\* socket_create returns r
RaceReturn(st, p, r) == [st EXCEPT !.proc[p].at = "done", !.proc[p].ret = r]

\* unlink(socket_path) by p: the path names nothing afterwards.
\* unlinked_bound records that the file was the other process's, bound
\* and not yet listening, that process still being inside socket_create.
RaceUnlinkPath(st, p) ==
    LET q == Other(p) IN
    [st EXCEPT !.file = "absent",
               !.unlinked_bound =
                   @ \/ (st.file = q /\ st.proc[q].open
                            /\ ~st.proc[q].listening /\ st.proc[q].ret = "none")]

\* is_socket_stale: stat() and S_ISSOCK
RaceStat(p) ==
    /\ mode = "race" /\ fnOut.proc[p].at = "stat"
    /\ fnOut' =
        IF fnOut.file # "absent" THEN [fnOut EXCEPT !.proc[p].at = "connect"]
        ELSE IF fnOut.proc[p].round = 1 THEN [fnOut EXCEPT !.proc[p].at = "bind"]
        ELSE RaceReturn(fnOut, p, "SOCKET_ERR_BIND_FAILED")
    /\ UNCHANGED memV

\* is_socket_stale: the test connect().  It succeeds when a process listens
\* on the socket the path names; anything else makes the file stale.
RaceConnect(p) ==
    /\ mode = "race" /\ fnOut.proc[p].at = "connect"
    /\ LET active == fnOut.file \in Procs /\ fnOut.proc[fnOut.file].open
                       /\ fnOut.proc[fnOut.file].listening
       IN
       fnOut' =
        IF ~active THEN [fnOut EXCEPT !.proc[p].at = "unlink"]
        ELSE IF fnOut.proc[p].round = 1 THEN [fnOut EXCEPT !.proc[p].at = "bind"]
        ELSE RaceReturn(fnOut, p, "SOCKET_ERR_BIND_FAILED")
    /\ UNCHANGED memV

\* remove_stale_socket: unlink(), ENOENT being no error
RaceRemoveStale(p) ==
    /\ mode = "race" /\ fnOut.proc[p].at = "unlink"
    /\ fnOut' = [RaceUnlinkPath(fnOut, p) EXCEPT !.proc[p].at = "bind"]
    /\ UNCHANGED memV

\* create_and_bind_socket: socket() and bind(); EADDRINUSE when the path
\* names a file, and then the one retry of socket_create
RaceBind(p) ==
    /\ mode = "race" /\ fnOut.proc[p].at = "bind"
    /\ fnOut' =
        IF fnOut.file = "absent"
            THEN [fnOut EXCEPT !.file = p, !.proc[p].open = TRUE,
                               !.proc[p].at = "chmod"]
        ELSE IF fnOut.proc[p].round = 1
            THEN [fnOut EXCEPT !.proc[p].round = 2, !.proc[p].at = "stat"]
        ELSE RaceReturn(fnOut, p, "SOCKET_ERR_BIND_FAILED")
    /\ UNCHANGED memV

\* chmod(socket_path, 0600): it changes whatever file the path names, and
\* fails with ENOENT when the path names none; then close(sock_fd)
RaceChmod(p) ==
    /\ mode = "race" /\ fnOut.proc[p].at = "chmod"
    /\ fnOut' =
        IF fnOut.file = "absent"
            THEN [fnOut EXCEPT !.proc[p].open = FALSE,
                               !.proc[p].at = "chmod_failed"]
        ELSE [fnOut EXCEPT !.proc[p].at = "listen"]
    /\ UNCHANGED memV

\* the unlink(socket_path) after the failed chmod, and the return
RaceChmodFailed(p) ==
    /\ mode = "race" /\ fnOut.proc[p].at = "chmod_failed"
    /\ fnOut' = RaceReturn(RaceUnlinkPath(fnOut, p), p, "SOCKET_ERR_CHMOD_FAILED")
    /\ UNCHANGED memV

\* listen(sock_fd, LISTEN_BACKLOG), the path stored, SOCKET_OK
RaceListen(p) ==
    /\ mode = "race" /\ fnOut.proc[p].at = "listen"
    /\ fnOut' = RaceReturn([fnOut EXCEPT !.proc[p].listening = TRUE], p,
                           "SOCKET_OK")
    /\ UNCHANGED memV

NextRace ==
    \E p \in Procs :
        \/ RaceStat(p) \/ RaceConnect(p) \/ RaceRemoveStale(p) \/ RaceBind(p)
        \/ RaceChmod(p) \/ RaceChmodFailed(p) \/ RaceListen(p)

SpecRace == InitRace /\ [][NextRace]_vars

\* C37: of two processes in socket_create on the same path, at most one
\* returns SOCKET_OK, and neither unlinks a socket file the other has
\* bound and not yet put into the listening state.
C37_OneCreatorWins ==
    mode = "race" =>
        /\ ~(\A p \in Procs : fnOut.proc[p].ret = "SOCKET_OK")
        /\ ~fnOut.unlinked_bound
====
